---- MODULE Spec2Model ----
(***************************************************************************)
(* Write pipeline and merge engine of Onyx (src/lib/Onyx.ts): set, merge,  *)
(* the per-key merge queue and its fold continuation, multiSet, the        *)
(* collection writes, clear and the batched update.                        *)
(*                                                                         *)
(* The event loop is cooperative: every action below is one synchronous    *)
(* run (a public call, or one promise continuation).  The storage driver   *)
(* applies operations in the order they are issued, so a write takes       *)
(* effect on `storage` when it is issued and a read returns the value      *)
(* stored when it was issued.                                              *)
(***************************************************************************)
EXTENDS Integers, Sequences, FiniteSets, TLC

(* ------------------------------ bounds -------------------------------- *)

\* Public calls made in one behaviour of the set/merge specification.
MaxCalls == 3

\* Public calls made in one behaviour of the clear specification.
MaxClearCalls == 2

\* Operations in the list given to one update call.
MaxOps == 2

\* Public calls made in one behaviour of the collection specification.
MaxCollectionCalls == 2

\* Public calls made in one behaviour of the storage pressure specification.
MaxEvictCalls == 2

\* Public calls made in one behaviour of the specification with several
\* instances, and writes made by the other instances.
MaxSyncCalls == 2
MaxSyncWrites == 2

(* ------------------------------ values -------------------------------- *)

\* A nested null inside an object delta.
NullF == 0 - 1

\* JSON-shaped values over two fields x, y.  A field is 0 when absent,
\* NullF when it is an explicit nested null, a positive number otherwise.
Undef == [t |-> "undef", x |-> 0, y |-> 0]
Null == [t |-> "null", x |-> 0, y |-> 0]
Arr(n) == [t |-> "arr", x |-> n, y |-> 0]
Obj(a, b) == [t |-> "obj", x |-> a, y |-> b]

\* "a" is a plain key, "lang" a key with a default state, "r_1" and "r_2" are
\* members of the collection "r_", "snap" is a key holding a snapshot; "r_42"
\* is the member of "r_" whose id is skippable.
Keys == {"a", "lang", "r_1", "r_2", "r_42", "snap"}

\* OnyxUtils.getCollectionKeys(): the one declared collection.
CollectionKey == "r_"

\* OnyxUtils.isKeyMatch(collectionKey, key) for the declared collection.
Members(ck) == IF ck = CollectionKey THEN {"r_1", "r_2", "r_42"} ELSE {}

\* OnyxUtils.getSkippableCollectionMemberIDs(), as given to init.
skippableCollectionMemberIDs == {"42"}

\* OnyxUtils.splitCollectionMemberKey(key): the member id of a collection
\* member key, "" for a key that is not one (the call throws).
splitCollectionMemberKey(key) ==
    IF key = "r_1" THEN "1" ELSE IF key = "r_2" THEN "2" ELSE IF key = "r_42" THEN "42" ELSE ""

\* The key is a collection member whose id is skippable.
isSkippable(key) == splitCollectionMemberKey(key) \in skippableCollectionMemberIDs

\* An object keyed by Onyx keys: Undef where the object has no entry.
NoData == [k \in Keys |-> Undef]
KeysOf(data) == {k \in Keys : data[k] # Undef}

\* Onyx.multiSet, lines 220-236 (mergeCollection 414-431, setCollection
\* 785-802): the value of each skippable member becomes null.
skipSkippable(data) ==
    [k \in Keys |-> IF data[k] # Undef /\ isSkippable(k) THEN Null ELSE data[k]]

\* OnyxUtils.getDefaultKeyStates(): Undef for a key without a default state.
defaultKeyStates == [k \in Keys |-> IF k = "lang" THEN Obj(2, 0) ELSE Undef]

\* JS truthiness of a stored value: undefined and null are falsy.
truthy(v) == v.t \notin {"undef", "null"}

\* utils.checkCompatibilityWithExistingValue: array against non-array is
\* the only incompatible pair; an absent operand is always compatible.
checkCompatibilityWithExistingValue(value, existingValue) ==
    \/ ~truthy(value)
    \/ ~truthy(existingValue)
    \/ (value.t = "arr") = (existingValue.t = "arr")

stripField(f) == IF f = NullF THEN 0 ELSE f

\* A value with its nested nulls removed.
stripNulls(v) == IF v.t = "obj" THEN Obj(stripField(v.x), stripField(v.y)) ELSE v

mergeField(a, b, strip) ==
    LET r == IF b = 0 THEN a ELSE b
    IN IF strip THEN stripField(r) ELSE r

\* utils.fastMerge(target, source, shouldRemoveNestedNulls)
fastMerge(target, source, strip) ==
    IF source.t = "undef" THEN target
    ELSE IF source.t = "null" THEN Null
    ELSE IF source.t = "arr" THEN source
    ELSE IF target.t = "obj"
    THEN Obj(mergeField(target.x, source.x, strip), mergeField(target.y, source.y, strip))
    ELSE IF strip THEN stripNulls(source) ELSE source

RECURSIVE applyMerge(_, _, _)
\* OnyxUtils.applyMerge(existingValue, changes, shouldRemoveNestedNulls):
\* the left-to-right fold of the changes onto the existing value.
applyMerge(existingValue, changes, strip) ==
    IF changes = <<>> THEN existingValue
    ELSE applyMerge(fastMerge(existingValue, Head(changes), strip), Tail(changes), strip)

(* ------------------------------- state -------------------------------- *)

VARIABLES
    cache,              \* OnyxCache: key -> value, Undef when not cached
    storage,            \* the storage driver's content, Undef when absent
    driver,             \* how the driver's mergeItem writes: "delta" or "premerged"
    mergeQueue,         \* OnyxUtils.getMergeQueue(): key -> queued deltas, <<>> when no entry
    mergeQueuePromise,  \* OnyxUtils.getMergeQueuePromise(): key -> promise id, 0 when no entry
    folds,              \* merge continuations waiting for their get(key)
    tasks,              \* the other pending promise continuations
    nextId,             \* next promise id
    resolved,           \* promise ids that have resolved
    mergeItemLog,       \* the Storage.mergeItem calls made, in order
    storageLog,         \* the Storage.setItem, multiSet and multiMerge calls made, in order
    reads,              \* number of get(key) reads issued by merge
    initial,            \* the storage content before the first call
    initialCache,       \* the cache content before the first call
    atClear,            \* cache and storage when clear was last called
    hist,               \* the public calls and fold runs so far, in order
    cstat,              \* per event of hist: what became of a merge call's delta
    updates,            \* the operation lists given to update, in call order
    syncQueue           \* writes of other instances not yet delivered to this one

vars == <<cache, storage, driver, mergeQueue, mergeQueuePromise, folds, tasks,
          nextId, resolved, mergeItemLog, storageLog, reads, initial, initialCache,
          atClear, hist, cstat, updates, syncQueue>>

\* Who makes a call: the user, or the update with task id u running one of its
\* snapshot or main operations.
User == [by |-> "user", u |-> 0]

St ==
    [cache |-> cache, storage |-> storage, driver |-> driver, mq |-> mergeQueue,
     mqp |-> mergeQueuePromise, folds |-> folds, tasks |-> tasks, nextId |-> nextId,
     resolved |-> resolved, mlog |-> mergeItemLog, slog |-> storageLog, reads |-> reads,
     atClear |-> atClear,
     hist |-> hist, cstat |-> cstat, updates |-> updates, sync |-> syncQueue, ctx |-> User]

Install(s) ==
    /\ cache' = s.cache
    /\ storage' = s.storage
    /\ driver' = s.driver
    /\ mergeQueue' = s.mq
    /\ mergeQueuePromise' = s.mqp
    /\ folds' = s.folds
    /\ tasks' = s.tasks
    /\ nextId' = s.nextId
    /\ resolved' = s.resolved
    /\ mergeItemLog' = s.mlog
    /\ storageLog' = s.slog
    /\ reads' = s.reads
    /\ initial' = initial
    /\ initialCache' = initialCache
    /\ atClear' = s.atClear
    /\ hist' = s.hist
    /\ cstat' = s.cstat
    /\ updates' = s.updates
    /\ syncQueue' = s.sync

\* An event of the history: the call (or "run"), its key and value, the promise
\* id a merge returned (a run: the fold's id), the reads issued so far and the
\* cached value of the key when the call was made; for a clear, the keys to
\* preserve; for a call on several keys, the object it was given.
Event(op, k, v, p, r, e, ctx) ==
    [op |-> op, k |-> k, v |-> v, p |-> p, r |-> r, e |-> e, pres |-> {},
     data |-> NoData, by |-> ctx.by, u |-> ctx.u]

record(s0, s, op, k, v, p, st) ==
    [s EXCEPT !.hist = Append(@, Event(op, k, v, p, s.reads, s0.cache[k], s.ctx)),
              !.cstat = Append(@, st)]

\* The event of an operation on several keys (k names the collection, if any).
recordOp(s, op, k, p) ==
    [s EXCEPT !.hist = Append(@, Event(op, k, Undef, p, s.reads, Undef, s.ctx)),
              !.cstat = Append(@, "na")]

\* The last event, with the object the call was given.
withData(s, data) == [s EXCEPT !.hist[Len(s.hist)].data = data]

Calls == {"set", "merge", "clear", "update", "multiSet", "mergeCollection", "setCollection"}
NCalls(h) == Cardinality({i \in 1..Len(h) : h[i].op \in Calls /\ h[i].by = "user"})

(* ----------------------- cache and storage helpers -------------------- *)

\* cache.hasValueChanged(key, value)
hasValueChanged(s, key, value) == s.cache[key] # value

\* OnyxUtils.broadcastUpdate(key, value, hasChanged): the optimistic cache write.
broadcastUpdate(s, key, value, hasChanged) ==
    IF hasChanged THEN [s EXCEPT !.cache[key] = value] ELSE s

\* OnyxUtils.remove(key): drop from the cache and remove from storage.
remove(s, key) == [s EXCEPT !.cache[key] = Undef, !.storage[key] = Undef]

\* A pending continuation other than a merge fold: its id, what it continues,
\* whether it waits for the storage driver, and for a clear the keys to
\* preserve and the id of the promise clear returned; for a retry, the method
\* to call again.
Task(id, kind, miss, pres, p) ==
    [id |-> id, kind |-> kind, miss |-> miss, pres |-> pres, p |-> p,
     ck |-> "", data |-> NoData, prev |-> NoData, thunks |-> <<>>, wait |-> 0,
     method |-> ""]

\* A call of the storage driver: the method, the pairs it was given and
\* whether the driver accepted it.
logCall(s, m, data, ok) == [s EXCEPT !.slog = Append(@, [m |-> m, data |-> data, ok |-> ok])]

\* The object with the one entry key: value.
pair(key, value) == [k \in Keys |-> IF k = key THEN value ELSE Undef]

\* Storage.setItem(key, value)
setItem(s, key, value) ==
    logCall([s EXCEPT !.storage[key] = value], "setItem", pair(key, value), TRUE)

\* Storage.setItem(key, value) rejects: nothing is written, and the catch of
\* line 203, OnyxUtils.evictStorageAndRetry(error, set, key, value), is pending.
setItemRejected(s, key, value) ==
    LET id == s.nextId
    IN logCall([s EXCEPT !.tasks = @ \cup {[Task(id, "evictStorageAndRetry", TRUE, {}, id)
                                               EXCEPT !.ck = key, !.data = pair(key, value),
                                                      !.method = "set"]},
                         !.nextId = id + 1],
               "setItem", pair(key, value), FALSE)

\* Storage.mergeItem(key, delta, preMerged, shouldSetValue): the driver writes
\* the pre-merged value, or patches the stored value with the delta.
mergeItem(s, key, delta, preMerged, shouldSetValue, calls) ==
    LET written == IF shouldSetValue \/ s.driver = "premerged"
                   THEN preMerged
                   ELSE applyMerge(s.storage[key], <<delta>>, TRUE)
    IN logCall([s EXCEPT !.storage[key] = written,
                         !.mlog = Append(@, [k |-> key, delta |-> delta, pre |-> preMerged,
                                             set |-> shouldSetValue, cs |-> calls])],
               "mergeItem", pair(key, delta), TRUE)

\* Storage.mergeItem(key, delta, preMerged, shouldSetValue) rejects: nothing is
\* written, and line 375 has no catch.
mergeItemRejected(s, key, delta, preMerged, shouldSetValue, calls) ==
    logCall([s EXCEPT !.mlog = Append(@, [k |-> key, delta |-> delta, pre |-> preMerged,
                                          set |-> shouldSetValue, cs |-> calls])],
            "mergeItem", pair(key, delta), FALSE)

(* -------------------------------- set --------------------------------- *)

\* The mutant of abortPendingMerge: set leaves the queued deltas in place.
abortPendingMerge_kept(s, key) == s

\* Onyx.set, lines 138-140: drop the key's merge queue entry.
abortPendingMerge(s, key) ==
    IF s.mq[key] # <<>>
    THEN [s EXCEPT !.mq[key] = <<>>,
                   !.cstat = [i \in 1..Len(@) |->
                                IF \E j \in 1..Len(s.mq[key]) : s.mq[key][j].c = i
                                THEN "aborted" ELSE @[i]]]
    ELSE s

\* The mutant of setWith: an unchanged value is written to storage again.
setWith_alwaysWrites(s0, key, value0, rejects) ==
    LET s == abortPendingMerge(s0, key)
        value == IF isSkippable(key) THEN Null ELSE value0
        existingValue == s.cache[key]
        valueWithoutNullValues == stripNulls(value)
        updated == broadcastUpdate(s, key, valueWithoutNullValues, TRUE)
    IN IF value = Undef THEN s
       ELSE IF existingValue = Undef /\ value = Null THEN s
       ELSE IF ~checkCompatibilityWithExistingValue(value, existingValue) THEN s
       ELSE IF value = Null THEN remove(s, key)
       ELSE IF rejects THEN setItemRejected(updated, key, valueWithoutNullValues)
       ELSE setItem(updated, key, valueWithoutNullValues)

\* The mutant of setWith: a set that returns early leaves the queued deltas in
\* place.
setWith_abortsLate(s0, key, value0, rejects) ==
    LET s == abortPendingMerge(s0, key)
        value == IF isSkippable(key) THEN Null ELSE value0
        existingValue == s.cache[key]
        valueWithoutNullValues == stripNulls(value)
        hasChanged == hasValueChanged(s, key, valueWithoutNullValues)
        updated == broadcastUpdate(s, key, valueWithoutNullValues, TRUE)
    IN IF value = Undef THEN s0
       ELSE IF existingValue = Undef /\ value = Null THEN s0
       ELSE IF ~checkCompatibilityWithExistingValue(value, existingValue) THEN s0
       ELSE IF value = Null THEN remove(s, key)
       ELSE IF ~hasChanged THEN s
       ELSE IF rejects THEN setItemRejected(updated, key, valueWithoutNullValues)
       ELSE setItem(updated, key, valueWithoutNullValues)

\* The mutant of setWith: the cache is written once the storage driver has
\* accepted the write, not before the call.
setWith_storageFirst(s0, key, value0, rejects) ==
    LET s == abortPendingMerge(s0, key)
        value == IF isSkippable(key) THEN Null ELSE value0
        existingValue == s.cache[key]
        valueWithoutNullValues == stripNulls(value)
        hasChanged == hasValueChanged(s, key, valueWithoutNullValues)
        updated == broadcastUpdate(s, key, valueWithoutNullValues, TRUE)
    IN IF value = Undef THEN s
       ELSE IF existingValue = Undef /\ value = Null THEN s
       ELSE IF ~checkCompatibilityWithExistingValue(value, existingValue) THEN s
       ELSE IF value = Null THEN remove(s, key)
       ELSE IF ~hasChanged THEN s
       ELSE IF rejects THEN setItemRejected(s, key, valueWithoutNullValues)
       ELSE setItem(updated, key, valueWithoutNullValues)

\* Onyx.set(key, value), lines 135-208; rejects: whether Storage.setItem, if the
\* call gets to it, rejects.
setWith(s0, key, value0, rejects) ==
    LET s == abortPendingMerge(s0, key)
        value == IF isSkippable(key) THEN Null ELSE value0
        existingValue == s.cache[key]
        valueWithoutNullValues == stripNulls(value)
        hasChanged == hasValueChanged(s, key, valueWithoutNullValues)
        updated == broadcastUpdate(s, key, valueWithoutNullValues, TRUE)
    IN IF value = Undef THEN s
       ELSE IF existingValue = Undef /\ value = Null THEN s
       ELSE IF ~checkCompatibilityWithExistingValue(value, existingValue) THEN s
       ELSE IF value = Null THEN remove(s, key)
       ELSE IF ~hasChanged THEN s
       ELSE IF rejects THEN setItemRejected(updated, key, valueWithoutNullValues)
       ELSE setItem(updated, key, valueWithoutNullValues)

\* Onyx.set(key, value) when the storage driver accepts the write.
set(s0, key, value) == setWith(s0, key, value, FALSE)

\* OnyxUtils.init: the keys declared evictable.
evictableKeys == {"r_1"}

\* Another instance of the store writes value for key through the shared
\* storage driver; the driver will tell this instance.
otherInstanceWrites(s, key, value) ==
    record(s, [s EXCEPT !.storage[key] = IF value = Null THEN Undef ELSE value,
                        !.sync = Append(@, [k |-> key, v |-> value])],
           "otherInstance", key, value, 0, "na")

\* The mutant of keepInstancesSync: the callback writes through set.
keepInstancesSync_throughSet(s, key, value) == set(s, key, value)

\* Onyx.init, lines 58-64: the callback given to Storage.keepInstancesSync,
\* cache.set(key, value) and OnyxUtils.keyChanged(key, value, prevValue).
keepInstancesSync(s, key, value) == [s EXCEPT !.cache[key] = value]

\* The storage driver delivers the oldest write of another instance to the
\* callback.
deliver(s) ==
    LET e == Head(s.sync)
        called == keepInstancesSync(s, e.k, e.v)
    IN record(s, [called EXCEPT !.sync = Tail(s.sync)], "keepInstancesSync", e.k, e.v, 0, "na")

(* ------------------------------- merge -------------------------------- *)

\* The mutant of enqueue: the new delta is put in front of the queue.
enqueue_front(queue, entry) == <<entry>> \o queue

\* Onyx.merge, line 305: mergeQueue[key].push(changes)
enqueue(queue, entry) == Append(queue, entry)

\* OnyxUtils.get(key): the value the read will resolve with, from the cache
\* when the key is cached, from storage otherwise.
get(s, key) == IF s.cache[key] # Undef THEN s.cache[key] ELSE s.storage[key]

\* Onyx.merge, lines 308-310: a new queue entry, and the read whose
\* continuation will fold it.
startFold(s, key, changes) ==
    LET p == s.nextId
        fold == [id |-> p, k |-> key, existing |-> get(s, key), miss |-> s.cache[key] = Undef,
                 wait |-> 0]
    IN record(s, [s EXCEPT !.mq[key] = <<[d |-> changes, c |-> Len(s.hist) + 1]>>,
                        !.mqp[key] = p,
                        !.folds = @ \cup {fold},
                        !.nextId = p + 1,
                        !.reads = @ + 1],
              "merge", key, changes, p, "queued")

\* The mutant of merge: every call starts a fold of its own.
merge_alwaysNewFold(s, key, changes0) ==
    LET changes == IF isSkippable(key) THEN Undef ELSE changes0
    IN
    IF changes = Undef
    THEN record(s, s, "merge", key, changes, 0, "ignored")
    ELSE startFold(s, key, changes)

\* Onyx.merge(key, changes): the synchronous part, up to the read.
merge(s, key, changes0) ==
    LET changes == IF isSkippable(key) THEN Undef ELSE changes0
    IN
    IF changes = Undef
    THEN record(s, s, "merge", key, changes, IF s.mq[key] # <<>> THEN s.mqp[key] ELSE 0, "ignored")
    ELSE IF s.mq[key] # <<>>
    THEN record(s, [s EXCEPT !.mq[key] = enqueue(@, [d |-> changes, c |-> Len(s.hist) + 1])],
                "merge", key, changes, s.mqp[key], "queued")
    ELSE startFold(s, key, changes)

Deltas(queue) == [i \in 1..Len(queue) |-> queue[i].d]
CallsOf(queue) == [i \in 1..Len(queue) |-> queue[i].c]

RECURSIVE filterValid(_, _)
\* Onyx.merge, lines 319-325: the queued changes compatible with the value read.
filterValid(queue, existingValue) ==
    IF queue = <<>> THEN <<>>
    ELSE IF checkCompatibilityWithExistingValue(Head(queue).d, existingValue)
         THEN <<Head(queue)>> \o filterValid(Tail(queue), existingValue)
         ELSE filterValid(Tail(queue), existingValue)

\* Onyx.merge, lines 337-339: delete mergeQueue[key]; delete mergeQueuePromise[key]
cleanUpQueue(s, key) == [s EXCEPT !.mq[key] = <<>>, !.mqp[key] = 0]

\* The mutant of batchChanges: the nested nulls are removed from the delta.
batchChanges_stripped(validChanges) == applyMerge(Undef, validChanges, TRUE)

\* Onyx.merge, line 330: the valid changes batched into one delta, nested
\* nulls kept.
batchChanges(validChanges) == applyMerge(Undef, validChanges, FALSE)

\* The mutant of foldContinuationWith: the cache is not written before
\* Storage.mergeItem is called.
foldContinuationWith_cacheLater(s, key, existingValue, rejects) ==
    LET queue == s.mq[key]
        validChanges == filterValid(queue, existingValue)
        batchedDeltaChanges == batchChanges(Deltas(validChanges))
        shouldSetValue == ~truthy(existingValue) \/ (\E i \in 1..Len(queue) : queue[i].d = Null)
        marked == [s EXCEPT !.cstat = [i \in 1..Len(@) |->
                      IF \E j \in 1..Len(validChanges) : validChanges[j].c = i THEN "folded"
                      ELSE IF \E j \in 1..Len(queue) : queue[j].c = i THEN "dropped"
                      ELSE @[i]]]
        cleaned == cleanUpQueue(marked, key)
        preMergedValue == applyMerge(IF shouldSetValue THEN Undef ELSE existingValue,
                                     <<batchedDeltaChanges>>, TRUE)
        hasChanged == hasValueChanged(cleaned, key, preMergedValue)
    IN IF queue = <<>> THEN s
       ELSE IF validChanges = <<>> THEN marked
       ELSE IF batchedDeltaChanges = Null THEN remove(cleaned, key)
       ELSE IF ~hasChanged THEN cleaned
       ELSE IF rejects
       THEN mergeItemRejected(cleaned,
                              key, batchedDeltaChanges, preMergedValue, shouldSetValue,
                              CallsOf(validChanges))
       ELSE mergeItem(cleaned,
                      key, batchedDeltaChanges, preMergedValue, shouldSetValue,
                      CallsOf(validChanges))

\* Onyx.merge, lines 310-383: the continuation of get(key); rejects tells
\* whether the storage driver rejects the write.
foldContinuationWith(s, key, existingValue, rejects) ==
    LET queue == s.mq[key]
        validChanges == filterValid(queue, existingValue)
        batchedDeltaChanges == batchChanges(Deltas(validChanges))
        shouldSetValue == ~truthy(existingValue) \/ (\E i \in 1..Len(queue) : queue[i].d = Null)
        marked == [s EXCEPT !.cstat = [i \in 1..Len(@) |->
                      IF \E j \in 1..Len(validChanges) : validChanges[j].c = i THEN "folded"
                      ELSE IF \E j \in 1..Len(queue) : queue[j].c = i THEN "dropped"
                      ELSE @[i]]]
        cleaned == cleanUpQueue(marked, key)
        preMergedValue == applyMerge(IF shouldSetValue THEN Undef ELSE existingValue,
                                     <<batchedDeltaChanges>>, TRUE)
        hasChanged == hasValueChanged(cleaned, key, preMergedValue)
    IN IF queue = <<>> THEN s
       ELSE IF validChanges = <<>> THEN marked
       ELSE IF batchedDeltaChanges = Null THEN remove(cleaned, key)
       ELSE IF ~hasChanged THEN cleaned
       ELSE IF rejects
       THEN mergeItemRejected(broadcastUpdate(cleaned, key, preMergedValue, TRUE),
                              key, batchedDeltaChanges, preMergedValue, shouldSetValue,
                              CallsOf(validChanges))
       ELSE mergeItem(broadcastUpdate(cleaned, key, preMergedValue, TRUE),
                      key, batchedDeltaChanges, preMergedValue, shouldSetValue,
                      CallsOf(validChanges))

\* The continuation of get(key) when the storage driver accepts the write.
foldContinuation(s, key, existingValue) == foldContinuationWith(s, key, existingValue, FALSE)

\* The read of get(key) completes (filling the cache on a miss) and the
\* continuation runs; the promise returned by merge then resolves, or rejects
\* when Storage.mergeItem was called and rejected.
foldRunWith(s, f, rejects) ==
    LET filled == IF f.miss /\ s.cache[f.k] = Undef /\ f.existing # Undef
                  THEN [s EXCEPT !.cache[f.k] = f.existing] ELSE s
        ran == foldContinuationWith(filled, f.k, f.existing, rejects)
        rejected == rejects /\ Len(ran.slog) > Len(s.slog)
    IN record(s, [ran EXCEPT !.folds = @ \ {f},
                             !.resolved = IF rejected THEN @ ELSE @ \cup {f.id}],
              "run", f.k, Undef, f.id, "na")

\* The continuation of a merge when the storage driver accepts the write.
foldRun(s, f) == foldRunWith(s, f, FALSE)

(* ------------------------------- clear -------------------------------- *)

\* OnyxUtils.getAllKeys(): the keys known to the store.
getAllKeys(s) == {k \in Keys : s.storage[k] # Undef \/ truthy(s.cache[k])}

\* Onyx.clear(keysToPreserve), lines 534-538 and 627: the synchronous part.
\* init has fetched the key set (line 77), so getAllKeys is served from the
\* cache and its continuation is queued at once.
clear(s, keysToPreserve) ==
    LET id == s.nextId
        called == [s EXCEPT !.tasks = @ \cup {Task(id, "clear", FALSE, keysToPreserve, id)},
                            !.nextId = id + 1,
                            !.atClear = [cache |-> s.cache, storage |-> s.storage]]
    IN [called EXCEPT !.hist = Append(@, [Event("clear", "a", Undef, id, s.reads, Undef, s.ctx)
                                             EXCEPT !.pres = keysToPreserve]),
                      !.cstat = Append(@, "na")]

\* Onyx.clear, line 564: the value a key that is not preserved is reset to.
newValueOnClear(key) == defaultKeyStates[key]

\* The mutant of keysToBeClearedFromStorage: preserved keys are removed too.
keysToBeClearedFromStorage_all(allKeys, keysToPreserve) ==
    {k \in allKeys : defaultKeyStates[k] = Undef}

\* Onyx.clear, lines 587-592: the keys that are neither preserved nor have a default.
keysToBeClearedFromStorage(allKeys, keysToPreserve) ==
    {k \in allKeys : k \notin keysToPreserve /\ defaultKeyStates[k] = Undef}

\* Onyx.clear, lines 539-617: the continuation of getAllKeys forgets the keys
\* the cache knows as absent (line 540), resets the cache and issues
\* Storage.removeItems.
clearReset(s, t) ==
    LET allKeys == getAllKeys(s) \cup {k \in Keys : defaultKeyStates[k] # Undef}
        toClear == keysToBeClearedFromStorage(allKeys, t.pres)
        id == s.nextId
        reset == [s EXCEPT
            !.cache = [k \in Keys |->
                         IF k \in toClear THEN Undef
                         ELSE IF k \in allKeys \ t.pres THEN newValueOnClear(k)
                         ELSE IF @[k] = Null THEN Undef
                         ELSE @[k]],
            !.storage = [k \in Keys |-> IF k \in toClear THEN Undef ELSE @[k]],
            !.tasks = (@ \ {t}) \cup {Task(id, "clearDefaults", TRUE, t.pres, t.p)},
            !.nextId = id + 1]
    IN record(s, reset, "clearReset", "a", Undef, t.p, "na")

\* Onyx.clear, lines 605-623: after removeItems and refreshSessionID,
\* Storage.multiSet(defaultKeyValuePairs); the promise of clear then resolves.
clearDefaults(s, t) ==
    LET defaultKeyValuePairs ==
            [k \in Keys |-> IF k \notin t.pres THEN defaultKeyStates[k] ELSE Undef]
        written == [s EXCEPT
            !.storage = [k \in Keys |->
                           IF defaultKeyValuePairs[k] # Undef
                           THEN defaultKeyValuePairs[k] ELSE @[k]],
            !.tasks = @ \ {t},
            !.resolved = @ \cup {t.p}]
    IN record(s, logCall(written, "multiSet", defaultKeyValuePairs, TRUE),
              "clearDone", "a", Undef, t.p, "na")

(* ------------------- multiSet and the collection writes --------------- *)

\* The mutant of abortPendingMerges: multiSet leaves the queued deltas in place.
abortPendingMerges_kept(s, ks) == s

RECURSIVE abortPendingMerges(_, _)
\* Onyx.multiSet, lines 242-244, for each key written.
abortPendingMerges(s, ks) ==
    IF ks = {} THEN s
    ELSE LET k == CHOOSE x \in ks : TRUE
         IN abortPendingMerges(abortPendingMerge(s, k), ks \ {k})

\* OnyxUtils.prepareKeyValuePairsForStorage(data, true), cache.set of each pair
\* and Storage.multiSet(pairs): nested nulls are stripped; a null value is
\* known to the cache as absent and removes the key from storage.
writePairs(s, data) ==
    logCall([s EXCEPT
                !.cache = [k \in Keys |-> IF data[k] # Undef THEN stripNulls(data[k]) ELSE @[k]],
                !.storage = [k \in Keys |->
                               IF data[k] = Undef THEN @[k]
                               ELSE IF data[k] = Null THEN Undef
                               ELSE stripNulls(data[k])]],
            "multiSet", [k \in Keys |-> stripNulls(data[k])], TRUE)

\* Onyx.multiSet, lines 238-254, when Storage.multiSet(pairs) rejects: the
\* cache holds the pairs, nothing is written, and the catch of line 254,
\* OnyxUtils.evictStorageAndRetry(error, multiSet, newData), is pending.
writePairsRejected(s, data) ==
    LET id == s.nextId
    IN logCall([s EXCEPT
                   !.cache = [k \in Keys |-> IF data[k] # Undef THEN stripNulls(data[k]) ELSE @[k]],
                   !.tasks = @ \cup {[Task(id, "evictStorageAndRetry", TRUE, {}, id)
                                         EXCEPT !.data = data, !.method = "multiSet"]},
                   !.nextId = id + 1],
               "multiSet", [k \in Keys |-> stripNulls(data[k])], FALSE)

\* Onyx.multiSet(data), lines 217-260; rejects tells whether the storage
\* driver rejects the write.
multiSetWith(s, data, rejects) ==
    LET newData == skipSkippable(data)
        aborted == abortPendingMerges(s, KeysOf(newData))
    IN IF rejects THEN writePairsRejected(aborted, newData) ELSE writePairs(aborted, newData)

\* Onyx.multiSet(data) when the storage driver accepts the write.
multiSet(s, data) == withData(recordOp(multiSetWith(s, data, FALSE), "multiSet", "", 0), data)

\* OnyxUtils.evictStorageAndRetry(error, method, ...args): with no evictable
\* key in the cache the error is thrown; otherwise the least recently used
\* evictable key is removed from cache and storage and the method, set or
\* multiSet, is called again with its arguments.
evictStorageAndRetry(s, t) ==
    LET evictable == {k \in evictableKeys : s.cache[k] # Undef}
        keyForRemoval == CHOOSE k \in evictable : TRUE
        done == [s EXCEPT !.tasks = @ \ {t}]
        removed == remove(done, keyForRemoval)
        retried == IF t.method = "multiSet" THEN multiSetWith(removed, t.data, FALSE)
                   ELSE set(removed, t.ck, t.data[t.ck])
    IN IF evictable = {}
       THEN recordOp(done, "rejected", t.ck, t.p)
       ELSE recordOp([retried EXCEPT !.resolved = @ \cup {t.p}], "retried", t.ck, t.p)

\* OnyxUtils.doAllCollectionItemsBelongToSameParent(collectionKey, keys)
doAllCollectionItemsBelongToSameParent(ck, ks) == ks \subseteq Members(ck)

\* OnyxUtils.isValidNonEmptyCollectionForMerge(collection)
isValidNonEmptyCollectionForMerge(data) == KeysOf(data) # {}

\* Onyx.mergeCollection(collectionKey, collection), lines 401-432: the
\* synchronous part, up to getAllKeys.
mergeCollection(s, ck, data) ==
    LET id == s.nextId
        called ==
            IF ~isValidNonEmptyCollectionForMerge(data) THEN recordOp(s, "mergeCollection", ck, 0)
            ELSE IF ~doAllCollectionItemsBelongToSameParent(ck, KeysOf(data))
            THEN recordOp(s, "mergeCollection", ck, 0)
            ELSE recordOp([s EXCEPT
                     !.tasks = @ \cup {[Task(id, "mergeCollection", FALSE, {}, id)
                                           EXCEPT !.ck = ck, !.data = skipSkippable(data)]},
                     !.nextId = id + 1],
                   "mergeCollection", ck, id)
    IN withData(called, data)

RECURSIVE removeAll(_, _)
\* Onyx.mergeCollection, lines 436-442: OnyxUtils.remove of each null member.
removeAll(s, ks) ==
    IF ks = {} THEN s
    ELSE LET k == CHOOSE x \in ks : TRUE
         IN removeAll(remove(s, k), ks \ {k})

\* mergeCollectionWrite without the compatibility check of lines 447-457.
mergeCollectionWrite_mergesIncompatible(s, t) ==
    LET persistedKeys == getAllKeys(s)
        keys == {k \in KeysOf(t.data) : t.data[k] # Null}
        removed == removeAll(s, {k \in KeysOf(t.data) : t.data[k] = Null})
        existingKeys == keys \cap persistedKeys
        existingKeyCollection == existingKeys
        newCollection == keys \ persistedKeys
        finalMergedCollection ==
            [k \in Keys |-> IF k \in existingKeyCollection \cup newCollection
                            THEN t.data[k] ELSE Undef]
        id == s.nextId
        next == [Task(id, "mergeCollectionCache", \E k \in existingKeys : s.cache[k] = Undef, {}, t.p)
                    EXCEPT !.ck = t.ck,
                           !.data = finalMergedCollection,
                           !.prev = [k \in Keys |-> IF k \in existingKeys THEN get(s, k) ELSE Undef]]
        keyValuePairsForExistingCollection ==
            [k \in Keys |-> IF k \in existingKeyCollection THEN t.data[k] ELSE Undef]
        keyValuePairsForNewCollection ==
            [k \in Keys |-> IF k \in newCollection THEN stripNulls(t.data[k]) ELSE Undef]
        written == [removed EXCEPT
            !.storage = [k \in Keys |->
                           IF k \in existingKeyCollection
                           THEN applyMerge(@[k], <<t.data[k]>>, TRUE)
                           ELSE IF k \in newCollection THEN stripNulls(t.data[k])
                           ELSE @[k]],
            !.tasks = (@ \ {t}) \cup {next},
            !.nextId = id + 1]
        merged == IF existingKeyCollection # {}
                  THEN logCall(written, "multiMerge", keyValuePairsForExistingCollection, TRUE)
                  ELSE written
        issued == IF newCollection # {}
                  THEN logCall(merged, "multiSet", keyValuePairsForNewCollection, TRUE)
                  ELSE merged
    IN recordOp(issued, "mergeCollectionWrite", t.ck, t.p)

\* Onyx.mergeCollection, lines 434-491: the continuation of getAllKeys issues
\* the reads of the existing keys, Storage.multiMerge and Storage.multiSet.
mergeCollectionWrite(s, t) ==
    LET persistedKeys == getAllKeys(s)
        keys == {k \in KeysOf(t.data) : t.data[k] # Null}
        removed == removeAll(s, {k \in KeysOf(t.data) : t.data[k] = Null})
        existingKeys == keys \cap persistedKeys
        existingKeyCollection ==
            {k \in existingKeys : checkCompatibilityWithExistingValue(t.data[k], s.cache[k])}
        newCollection == keys \ persistedKeys
        finalMergedCollection ==
            [k \in Keys |-> IF k \in existingKeyCollection \cup newCollection
                            THEN t.data[k] ELSE Undef]
        id == s.nextId
        next == [Task(id, "mergeCollectionCache", \E k \in existingKeys : s.cache[k] = Undef, {}, t.p)
                    EXCEPT !.ck = t.ck,
                           !.data = finalMergedCollection,
                           !.prev = [k \in Keys |-> IF k \in existingKeys THEN get(s, k) ELSE Undef]]
        keyValuePairsForExistingCollection ==
            [k \in Keys |-> IF k \in existingKeyCollection THEN t.data[k] ELSE Undef]
        keyValuePairsForNewCollection ==
            [k \in Keys |-> IF k \in newCollection THEN stripNulls(t.data[k]) ELSE Undef]
        written == [removed EXCEPT
            !.storage = [k \in Keys |->
                           IF k \in existingKeyCollection
                           THEN applyMerge(@[k], <<t.data[k]>>, TRUE)
                           ELSE IF k \in newCollection THEN stripNulls(t.data[k])
                           ELSE @[k]],
            !.tasks = (@ \ {t}) \cup {next},
            !.nextId = id + 1]
        merged == IF existingKeyCollection # {}
                  THEN logCall(written, "multiMerge", keyValuePairsForExistingCollection, TRUE)
                  ELSE written
        issued == IF newCollection # {}
                  THEN logCall(merged, "multiSet", keyValuePairsForNewCollection, TRUE)
                  ELSE merged
    IN recordOp(issued, "mergeCollectionWrite", t.ck, t.p)

\* Onyx.mergeCollection, lines 494-497: once the reads have filled the cache,
\* cache.merge(finalMergedCollection); the promise of mergeCollection resolves.
mergeCollectionCache(s, t) ==
    recordOp([s EXCEPT
            !.cache = [k \in Keys |->
                         IF t.data[k] # Undef
                         THEN fastMerge(IF @[k] # Undef THEN @[k] ELSE t.prev[k], t.data[k], TRUE)
                         ELSE @[k]],
            !.tasks = @ \ {t},
            !.resolved = @ \cup {t.p}],
          "mergeCollectionDone", t.ck, t.p)

\* Onyx.setCollection(collectionKey, collection), lines 776-805: the
\* synchronous part, up to getAllKeys.
setCollection(s, ck, data) ==
    LET id == s.nextId
        called ==
            IF ~doAllCollectionItemsBelongToSameParent(ck, KeysOf(data))
            THEN recordOp(s, "setCollection", ck, 0)
            ELSE recordOp([s EXCEPT
                     !.tasks = @ \cup {[Task(id, "setCollection", FALSE, {}, id)
                                           EXCEPT !.ck = ck, !.data = skipSkippable(data)]},
                     !.nextId = id + 1],
                   "setCollection", ck, id)
    IN withData(called, data)

\* The mutant of setCollectionWrite: the members that are not in the input are
\* left alone.
setCollectionWrite_keepsOthers(s, t) ==
    recordOp([writePairs(s, t.data) EXCEPT !.tasks = @ \ {t}, !.resolved = @ \cup {t.p}],
             "setCollectionDone", t.ck, t.p)

\* Onyx.setCollection, lines 805-831: the continuation of getAllKeys: every
\* persisted member that is not in the input is written as null.
setCollectionWrite(s, t) ==
    LET persistedKeys == getAllKeys(s)
        mutableCollection ==
            [k \in Keys |->
                IF t.data[k] # Undef THEN t.data[k]
                ELSE IF k \in persistedKeys /\ k \in Members(t.ck) THEN Null
                ELSE Undef]
        written == writePairs(s, mutableCollection)
    IN recordOp([written EXCEPT !.tasks = @ \ {t}, !.resolved = @ \cup {t.p}],
                "setCollectionDone", t.ck, t.p)

(* ------------------------------- update ------------------------------- *)

\* One operation of an update list: the method, the key (a collection key for
\* the collection methods), the value of set and merge, the object of
\* multiSet and of the collection methods; whether the key is a string, and
\* what the value of a multiSet is: a plain object ("object"), null, an array
\* or something else ("other").
Op(m, k, v, data) ==
    [m |-> m, k |-> k, v |-> v, data |-> data, keyIsString |-> TRUE, valueType |-> "object"]

\* OnyxUtils.METHOD
METHOD == {"set", "merge", "mergecollection", "setcollection", "multiset", "clear"}

\* Onyx.update, lines 638-650: the validation of one operation.  The value of a
\* multiSet passes when typeof gives 'object' and it is not an array: a plain
\* object, and null.
isValidUpdate(op) ==
    /\ op.m \in METHOD
    /\ IF op.m = "multiset" THEN op.valueType \in {"object", "null"}
       ELSE op.m = "clear" \/ op.keyIsString

\* Onyx.update, lines 655-660
enqueueSetOperation(updateQueue, key, value) ==
    [updateQueue EXCEPT ![key] = <<Null, value>>]

\* Onyx.update, lines 661-670
enqueueMergeOperation(updateQueue, key, value) ==
    IF value = Null THEN [updateQueue EXCEPT ![key] = <<Null>>]
    ELSE [updateQueue EXCEPT ![key] = Append(@, value)]

\* A deferred call of the promises list: the method, its arguments, and
\* whether it is a snapshot or a main operation.
Thunk(m, k, v, data, by) == [m |-> m, k |-> k, v |-> v, data |-> data, by |-> by]

\* Onyx.update, lines 675-698: the handler of one operation, on the update
\* queue q.updateQueue, the promises list q.promises, the store q.s (clear is
\* called at once), the promise of the last clear q.clearPromise, and the id
\* q.u of the update.  Object.entries of a multiSet value that is null throws
\* (line 694): q.threw, and the rest of the list is not handled.
handle(q, op) ==
    IF q.threw THEN q
    ELSE IF op.m = "set"
    THEN [q EXCEPT !.updateQueue = enqueueSetOperation(@, op.k, op.v)]
    ELSE IF op.m = "merge"
    THEN [q EXCEPT !.updateQueue = enqueueMergeOperation(@, op.k, op.v)]
    ELSE IF op.m = "mergecollection"
    THEN IF /\ isValidNonEmptyCollectionForMerge(op.data)
            /\ doAllCollectionItemsBelongToSameParent(op.k, KeysOf(op.data))
         THEN [q EXCEPT !.updateQueue =
                  [k \in Keys |-> IF op.data[k] # Undef
                                  THEN enqueueMergeOperation(@, k, op.data[k])[k] ELSE @[k]]]
         ELSE q
    ELSE IF op.m = "setcollection"
    THEN [q EXCEPT !.promises = Append(@, Thunk("setcollection", op.k, Undef, op.data, "main"))]
    ELSE IF op.m = "multiset"
    THEN IF op.valueType = "null" THEN [q EXCEPT !.threw = TRUE]
         ELSE [q EXCEPT !.updateQueue =
                  [k \in Keys |-> IF op.data[k] # Undef
                                  THEN enqueueSetOperation(@, k, op.data[k])[k] ELSE @[k]]]
    ELSE [q EXCEPT !.s = [clear([@ EXCEPT !.ctx = [by |-> "update", u |-> q.u]], {})
                             EXCEPT !.ctx = User],
                   !.clearPromise = q.s.nextId]

RECURSIVE handleAll(_, _)
\* Onyx.update, lines 675-701: data.forEach
handleAll(q, data) ==
    IF data = <<>> THEN q ELSE handleAll(handle(q, Head(data)), Tail(data))

\* The mutant of collapse: the members of a collection stay in the queue.
collapse_skipped(q) == q

\* Onyx.update, lines 706-743: the members of the collection that are in the
\* update queue, when there are at least two of them, are taken out of the
\* queue and written by one mergeCollection and one multiSet.
collapse(q) ==
    LET collectionItemKeys == {k \in Members(CollectionKey) : q.updateQueue[k] # <<>>}
        isSet(k) == Head(q.updateQueue[k]) = Null
        part(ks) == [k \in Keys |-> IF k \in ks THEN applyMerge(Undef, q.updateQueue[k], FALSE)
                                    ELSE Undef]
        mergePart == part({k \in collectionItemKeys : ~isSet(k)})
        setPart == part({k \in collectionItemKeys : isSet(k)})
    IN IF Cardinality(collectionItemKeys) <= 1 THEN q
       ELSE [q EXCEPT
               !.updateQueue = [k \in Keys |-> IF k \in collectionItemKeys THEN <<>> ELSE @[k]],
               !.promises = @
                   \o (IF KeysOf(mergePart) # {}
                       THEN <<Thunk("mergecollection", CollectionKey, Undef, mergePart, "main")>>
                       ELSE <<>>)
                   \o (IF KeysOf(setPart) # {}
                       THEN <<Thunk("multiset", "", Undef, setPart, "main")>>
                       ELSE <<>>)]

\* The keys in the order Object.entries lists them.
KeyOrder == <<"a", "lang", "r_1", "r_2", "r_42", "snap">>

RECURSIVE emit(_, _)
\* Onyx.update, lines 745-753: one set or merge per key left in the queue.
emit(updateQueue, order) ==
    IF order = <<>> THEN <<>>
    ELSE LET key == Head(order)
             operations == updateQueue[key]
             batchedChanges == applyMerge(Undef, operations, FALSE)
         IN (IF operations = <<>> THEN <<>>
             ELSE IF Head(operations) = Null
             THEN <<Thunk("set", key, batchedChanges, NoData, "main")>>
             ELSE <<Thunk("merge", key, batchedChanges, NoData, "main")>>)
            \o emit(updateQueue, Tail(order))

\* The mutant of waitsFor: the deferred functions do not wait for the clear.
waitsFor_nothing(clearPromise) == 0

\* Onyx.update, line 760: clearPromise.then(...): the promise the deferred
\* functions wait for, 0 when the list has no clear.
waitsFor(clearPromise) == clearPromise

\* Onyx.update(data), lines 636-760: the synchronous part.  snapshotPromises is
\* what OnyxUtils.updateSnapshots(data, merge) returned.  A list with an
\* invalid operation throws before anything is done; a handler that throws
\* ends the call after the handlers of the operations before it have run.
update(s, data, snapshotPromises) ==
    LET id == s.nextId
        called == [s EXCEPT !.updates = Append(@, data)]
        started == [recordOp(called, "update", "", id) EXCEPT !.nextId = id + 1]
        q0 == [updateQueue |-> [k \in Keys |-> <<>>], promises |-> <<>>, s |-> started,
               clearPromise |-> 0, u |-> id, threw |-> FALSE]
        handled == handleAll(q0, data)
        q == collapse(handled)
        promises == q.promises \o emit(q.updateQueue, KeyOrder)
        finalPromises == snapshotPromises \o promises
        task == [Task(id, "update", FALSE, {}, id)
                    EXCEPT !.thunks = finalPromises, !.wait = waitsFor(q.clearPromise)]
    IN IF \E i \in 1..Len(data) : ~isValidUpdate(data[i])
       THEN recordOp(called, "throw", "", 0)
       ELSE IF handled.threw THEN recordOp(handled.s, "throw", "", 0)
       ELSE [q.s EXCEPT !.tasks = @ \cup {task}]

\* The call a deferred function makes.
invoke(s, th) ==
    IF th.m = "set" THEN record(s, set(s, th.k, th.v), "set", th.k, th.v, 0, "na")
    ELSE IF th.m = "merge" THEN merge(s, th.k, th.v)
    ELSE IF th.m = "multiset" THEN multiSet(s, th.data)
    ELSE IF th.m = "mergecollection" THEN mergeCollection(s, th.k, th.data)
    ELSE setCollection(s, th.k, th.data)

RECURSIVE invokeAll(_, _, _)
\* Onyx.update, line 760: finalPromises.map((p) => p())
invokeAll(s, thunks, u) ==
    IF thunks = <<>> THEN [s EXCEPT !.ctx = User]
    ELSE invokeAll(invoke([s EXCEPT !.ctx = [by |-> Head(thunks).by, u |-> u]], Head(thunks)),
                   Tail(thunks), u)

\* Onyx.update, line 760: the continuation of clearPromise.
updateRun(s, t) == invokeAll([s EXCEPT !.tasks = @ \ {t}], t.thunks, t.id)

(* ------------------------------ inputs -------------------------------- *)

InitValues == {Undef, Obj(1, 0), Arr(1)}
MergeInputs == {Obj(1, 0), Obj(0, 2), Obj(3, 0), Obj(NullF, 0), Arr(2), Null}
SetInputs == {Obj(3, 0), Obj(0, 3), Arr(2), Null, Undef}
CallKeys == {"a"}

(* ------------------------------ actions ------------------------------- *)

\* OnyxUtils.initializeWithDefaultKeyStates(): the cached value of a key with
\* a default state after init, the stored value and the default merged one
\* way or the other.
initializeWithDefaultKeyStates(stored, default) ==
    {fastMerge(stored, default, TRUE), fastMerge(default, stored, TRUE)}

\* The state after init: nothing pending; each key of ks holds one of vs in
\* storage, or is absent; a key with a default state is cached, any other key
\* is cached or not.
InitWith(ks, vs) ==
    /\ storage \in {f \in [Keys -> vs \cup {Undef}] : \A k \in Keys \ ks : f[k] = Undef}
    /\ cache \in {c \in [Keys -> vs \cup {Undef} \cup {defaultKeyStates[k] : k \in Keys}] :
                    \A k \in Keys :
                        IF defaultKeyStates[k] # Undef
                        THEN c[k] \in initializeWithDefaultKeyStates(storage[k], defaultKeyStates[k])
                        ELSE c[k] \in {Undef, storage[k]}}
    /\ driver \in {"delta", "premerged"}
    /\ mergeQueue = [k \in Keys |-> <<>>]
    /\ mergeQueuePromise = [k \in Keys |-> 0]
    /\ folds = {}
    /\ tasks = {}
    /\ nextId = 1
    /\ resolved = {}
    /\ mergeItemLog = <<>>
    /\ storageLog = <<>>
    /\ reads = 0
    /\ initial = storage
    /\ initialCache = cache
    /\ atClear = [cache |-> cache, storage |-> storage]
    /\ hist = <<>>
    /\ cstat = <<>>
    /\ updates = <<>>
    /\ syncQueue = <<>>

Init == InitWith(CallKeys, InitValues)

SetOn(ks, vs, max) ==
    /\ NCalls(hist) < max
    /\ \E k \in ks, v \in vs :
          Install(record(St, set(St, k, v), "set", k, v, 0, "na"))

MergeOn(ks, ds, max) ==
    /\ NCalls(hist) < max
    /\ \E k \in ks, d \in ds : Install(merge(St, k, d))

Set == SetOn(CallKeys, SetInputs, MaxCalls)

Merge == MergeOn(CallKeys, MergeInputs, MaxCalls)

\* Promise scheduling: continuations run in the order their promises resolve.
\* A read served from the cache resolves at once, so its continuation runs
\* before anything issued later; a read that went to storage resolves after
\* the reads issued to storage before it, and may be overtaken by later reads
\* served from the cache.
\* A continuation that waits for another promise (an update waiting for its
\* clear) is not in this order: it runs once that promise has resolved.
Pending(s) == {[id |-> f.id, miss |-> f.miss] : f \in s.folds}
                 \cup {[id |-> t.id, miss |-> t.miss] : t \in {x \in s.tasks : x.wait = 0}}

runnable(s, f) ==
    IF f.wait # 0 THEN f.wait \in s.resolved
    ELSE \A g \in Pending(s) : g.id < f.id => (g.miss /\ ~f.miss)

FoldRun == \E f \in folds : runnable(St, f) /\ Install(foldRun(St, f))

Next == Set \/ Merge \/ FoldRun

Spec == Init /\ [][Next]_vars

(* ----------------------- clear with set and merge --------------------- *)

ClearKeys == {"a", "lang"}

InitClear == InitWith(ClearKeys, {Obj(1, 0)})

SetDuringClear == SetOn(ClearKeys, {Obj(3, 0)}, MaxClearCalls)

MergeDuringClear == MergeOn(ClearKeys, {Obj(0, 2)}, MaxClearCalls)

ClearCall ==
    /\ NCalls(hist) < MaxClearCalls
    /\ \E pres \in SUBSET ClearKeys : Install(clear(St, pres))

ClearReset == \E t \in tasks : t.kind = "clear" /\ runnable(St, t) /\ Install(clearReset(St, t))

ClearDefaults ==
    \E t \in tasks : t.kind = "clearDefaults" /\ runnable(St, t) /\ Install(clearDefaults(St, t))

NextClear ==
    SetDuringClear \/ MergeDuringClear \/ FoldRun \/ ClearCall \/ ClearReset \/ ClearDefaults

SpecClear == InitClear /\ [][NextClear]_vars

(* ------------------------------- update ------------------------------- *)

UpdateKeys == {"a", "r_1"}

InitUpdate == InitWith(UpdateKeys, {Obj(1, 0)})

\* An object with one entry, with two entries.
One(k, v) == [j \in Keys |-> IF j = k THEN v ELSE Undef]
Two(k1, v1, k2, v2) == [j \in Keys |-> IF j = k1 THEN v1 ELSE IF j = k2 THEN v2 ELSE Undef]

\* The operations an update list is made of.
UpdateOps ==
    {Op("set", k, Obj(3, 0), NoData) : k \in {"a", "r_1"}}
        \cup {Op("merge", k, Obj(0, 2), NoData) : k \in {"a", "r_1", "r_2"}}
        \cup {Op("multiset", "", Undef, d) :
                 d \in {One("r_1", Obj(3, 0)), Two("r_1", Obj(0, 3), "r_2", Obj(3, 0))}}
        \cup {Op("mergecollection", CollectionKey, Undef, d) :
                 d \in {Two("r_1", Obj(0, 2), "r_2", Obj(2, 0)), Two("r_1", Null, "r_2", Obj(2, 0)),
                        One("a", Obj(0, 2))}}
        \cup {Op("setcollection", CollectionKey, Undef, d) :
                 d \in {One("r_2", Obj(3, 0)), One("a", Obj(3, 0))}}
        \cup {Op("clear", "", Undef, NoData)}
        \cup {Op("set", "a", Arr(2), NoData), Op("merge", "a", Arr(2), NoData),
               Op("multiset", "", Undef, One("r_1", Arr(2))),
               Op("mergecollection", CollectionKey, Undef, One("r_1", Arr(2))),
               Op("setcollection", CollectionKey, Undef, One("r_1", Arr(2)))}
        \cup {Op("bogus", "a", Obj(3, 0), NoData),
               [Op("set", "a", Obj(3, 0), NoData) EXCEPT !.keyIsString = FALSE],
               [Op("multiset", "", Undef, NoData) EXCEPT !.valueType = "array"],
               [Op("multiset", "", Undef, NoData) EXCEPT !.valueType = "null"],
               [Op("multiset", "", Undef, One("r_1", Obj(3, 0))) EXCEPT !.keyIsString = FALSE]}

RECURSIVE Lists(_, _)
\* The lists of at most n elements of S.
Lists(S, n) ==
    IF n = 0 THEN {<<>>}
    ELSE LET shorter == Lists(S, n - 1)
         IN shorter \cup {Append(l, x) : l \in shorter, x \in S}

\* What updateSnapshots returns: nothing, or one merge into the snapshot key.
SnapshotPromises == {<<>>, <<Thunk("merge", "snap", Obj(1, 0), NoData, "snapshot")>>}

UpdateCall ==
    /\ updates = <<>>
    /\ \E data \in Lists(UpdateOps, MaxOps) \ {<<>>}, snapshotPromises \in SnapshotPromises :
          Install(update(St, data, snapshotPromises))

UpdateRun == \E t \in tasks : t.kind = "update" /\ runnable(St, t) /\ Install(updateRun(St, t))

MergeCollectionWrite ==
    \E t \in tasks :
        t.kind = "mergeCollection" /\ runnable(St, t) /\ Install(mergeCollectionWrite(St, t))

MergeCollectionCache ==
    \E t \in tasks :
        t.kind = "mergeCollectionCache" /\ runnable(St, t) /\ Install(mergeCollectionCache(St, t))

SetCollectionWrite ==
    \E t \in tasks :
        t.kind = "setCollection" /\ runnable(St, t) /\ Install(setCollectionWrite(St, t))

NextUpdate ==
    \/ UpdateCall
    \/ UpdateRun
    \/ FoldRun
    \/ MergeCollectionWrite
    \/ MergeCollectionCache
    \/ SetCollectionWrite
    \/ ClearReset
    \/ ClearDefaults

SpecUpdate == InitUpdate /\ [][NextUpdate]_vars

(* ------------------- writes on the members of a collection ------------ *)

CollectionKeys == {"r_1", "r_42"}

\* "r_42" may be in storage: written by a session in which its id was not
\* given to init as skippable.
InitCollection == InitWith(CollectionKeys, {Obj(1, 0)})

CollectionInputs ==
    {One("r_42", Obj(3, 0)), One("r_1", Obj(0, 3)), Two("r_1", Obj(3, 0), "r_42", Obj(0, 3)),
     Two("r_1", Null, "r_2", Obj(3, 0)), One("r_2", Obj(NullF, 3))}

SetMember == SetOn(CollectionKeys, {Obj(3, 0)}, MaxCollectionCalls)

MergeMember == MergeOn(CollectionKeys, {Obj(0, 2)}, MaxCollectionCalls)

\* The objects given to multiSet: those above and a value with a nested null
\* for a member that can have a merge pending.
MultiSetInputs == CollectionInputs \cup {One("r_1", Obj(NullF, 3))}

MultiSetCall ==
    /\ NCalls(hist) < MaxCollectionCalls
    /\ \E data \in MultiSetInputs : Install(multiSet(St, data))

\* The collections given to mergeCollection: those above, an existing and a
\* new member together, an array for a member, an empty object and a key that
\* is not a member of the collection.
MergeCollectionInputs ==
    CollectionInputs \cup
        {Two("r_1", Obj(3, 0), "r_2", Obj(0, 3)), One("r_1", Arr(2)), NoData, One("a", Obj(3, 0))}

MergeCollectionCall ==
    /\ NCalls(hist) < MaxCollectionCalls
    /\ \E data \in MergeCollectionInputs : Install(mergeCollection(St, CollectionKey, data))

SetCollectionCall ==
    /\ NCalls(hist) < MaxCollectionCalls
    /\ \E data \in CollectionInputs : Install(setCollection(St, CollectionKey, data))

NextCollection ==
    \/ SetMember
    \/ MergeMember
    \/ MultiSetCall
    \/ MergeCollectionCall
    \/ SetCollectionCall
    \/ FoldRun
    \/ MergeCollectionWrite
    \/ MergeCollectionCache
    \/ SetCollectionWrite

SpecCollection == InitCollection /\ [][NextCollection]_vars

(* ----------------------- set under storage pressure ------------------- *)

EvictKeys == {"a", "r_1"}

InitEvict == InitWith(EvictKeys, {Obj(1, 0)})

\* set(k, v) is called and Storage.setItem rejects.
SetRejected ==
    /\ NCalls(hist) < MaxEvictCalls
    /\ \E k \in EvictKeys, v \in {Obj(3, 0)} :
          Install(record(St, setWith(St, k, v, TRUE), "set", k, v, 0, "na"))

SetAccepted == SetOn(EvictKeys, {Obj(3, 0), Obj(0, 3)}, MaxEvictCalls)

MergeUnderPressure == MergeOn(EvictKeys, {Obj(0, 2)}, MaxEvictCalls)

EvictStorageAndRetry ==
    \E t \in tasks :
        t.kind = "evictStorageAndRetry" /\ runnable(St, t) /\ Install(evictStorageAndRetry(St, t))

\* The objects given to multiSet under storage pressure.
EvictInputs == {One("a", Obj(0, 3)), Two("a", Obj(3, 0), "r_1", Obj(0, 3))}

\* multiSet(data) is called and Storage.multiSet rejects.
MultiSetRejected ==
    /\ NCalls(hist) < MaxEvictCalls
    /\ \E data \in EvictInputs :
          Install(withData(recordOp(multiSetWith(St, data, TRUE), "multiSet", "", 0), data))

\* The continuation of a merge runs and Storage.mergeItem rejects.
FoldRunRejected ==
    \E f \in folds :
        /\ runnable(St, f)
        /\ foldRunWith(St, f, TRUE) # foldRun(St, f)
        /\ Install(foldRunWith(St, f, TRUE))

NextEvict ==
    \/ SetRejected
    \/ SetAccepted
    \/ MergeUnderPressure
    \/ MultiSetRejected
    \/ FoldRun
    \/ FoldRunRejected
    \/ EvictStorageAndRetry

SpecEvict == InitEvict /\ [][NextEvict]_vars

(* ------------------------ several instances -------------------------- *)

SyncKeys == {"a"}

InitSync == InitWith(SyncKeys, {Obj(1, 0)})

SetSynced == SetOn(SyncKeys, {Obj(3, 0)}, MaxSyncCalls)

MergeSynced == MergeOn(SyncKeys, {Obj(0, 2)}, MaxSyncCalls)

\* The number of writes other instances have made.
NWrites(h) == Cardinality({i \in 1..Len(h) : h[i].op = "otherInstance"})

OtherInstanceWrites ==
    /\ NWrites(hist) < MaxSyncWrites
    /\ \E k \in SyncKeys, v \in {Obj(0, 3), Null} : Install(otherInstanceWrites(St, k, v))

KeepInstancesSync == syncQueue # <<>> /\ Install(deliver(St))

NextSync == SetSynced \/ MergeSynced \/ FoldRun \/ OtherInstanceWrites \/ KeepInstancesSync

SpecSync == InitSync /\ [][NextSync]_vars

(* ------------------------------ claims -------------------------------- *)

\* Every promise has settled.
Quiescent == folds = {} /\ tasks = {}

IsMerge(i) == hist[i].op = "merge" /\ hist[i].v # Undef
IsSet(i) == hist[i].op = "set"
IsObj(v) == v.t = "obj"

\* Events i < j of hist are merge calls on one key made in the same tick:
\* nothing but merge calls on that key stands between them.
SameTick(i, j) ==
    /\ i < j
    /\ \A n \in i..j : IsMerge(n) /\ hist[n].k = hist[i].k

\* The Storage.mergeItem calls that carry the delta of call i.
LogsOf(i) == {n \in 1..Len(mergeItemLog) : \E m \in 1..Len(mergeItemLog[n].cs) : mergeItemLog[n].cs[m] = i}

RBefore(i) == IF i = 1 THEN 0 ELSE hist[i - 1].r
RunsBefore(i) == {hist[n].p : n \in {m \in 1..i : hist[m].op = "run"}}

\* C1: merge calls on K made in the same tick, while the read of their fold is
\* pending, return one promise, issue exactly one read for the batch (by the
\* call that created the queue entry) and reach Storage.mergeItem in at most
\* one call.
C1_OneReadOnePromiseOneWrite ==
    \A i, j \in 1..Len(hist) :
        (SameTick(i, j) /\ hist[i].p \notin RunsBefore(i)) =>
            /\ hist[j].p = hist[i].p
            /\ hist[j].r - RBefore(i) = (IF \E n \in 1..(i - 1) : hist[n].p = hist[i].p THEN 0 ELSE 1)
            /\ Cardinality(LogsOf(i) \cup LogsOf(j)) <= 1
            /\ (Quiescent => Cardinality({n \in 1..Len(hist) : hist[n].op = "run" /\ hist[n].p = hist[i].p}) = 1)

\* C1 witness: three merges of one tick have been folded by one fold and written once.
C1_Witness ==
    /\ Len(hist) = 4
    /\ SameTick(1, 3)
    /\ hist[4].op = "run"
    /\ Len(mergeItemLog) = 1
    /\ Len(mergeItemLog[1].cs) = 3

\* The value a reader of K gets: the cached value, the stored one when uncached.
ValueOf(k) == IF cache[k] # Undef THEN cache[k] ELSE storage[k]

LastCall(j) == \A n \in (j + 1)..Len(hist) : hist[n].op = "run"

\* set(K, v) writes v: v is a value, compatible with the cached value.
Writes(j) == truthy(hist[j].v) /\ checkCompatibilityWithExistingValue(hist[j].v, hist[j].e)

refStep(cur, e) ==
    IF e.v = Undef \/ ~checkCompatibilityWithExistingValue(e.v, cur) THEN cur
    ELSE IF e.v = Null THEN Undef
    ELSE IF e.op = "set" THEN stripNulls(e.v)
    ELSE applyMerge(cur, <<e.v>>, TRUE)

RECURSIVE refFold(_, _, _)
refFold(cur, h, k) ==
    IF h = <<>> THEN cur
    ELSE refFold(IF Head(h).op # "run" /\ Head(h).k = k THEN refStep(cur, Head(h)) ELSE cur,
                 Tail(h), k)

\* C3 (as claimed): once all promises have settled, the value of K is the
\* result of applying the set and merge calls one after another in call order
\* (set replaces, merge deep-merges), here for histories of object values on a
\* key that held an object or nothing, where no update is incompatible.
C3_FinalIsSequential ==
    (/\ Quiescent
     /\ \A i \in 1..Len(hist) : hist[i].op = "run" \/ (IsObj(hist[i].v) /\ hist[i].op # "clear")
     /\ \A k \in CallKeys : initial[k].t # "arr") =>
        \A k \in CallKeys : ValueOf(k) = refFold(initial[k], hist, k)

\* C4 (as claimed): at most one merge fold is in flight per key.
C4_AtMostOneFoldPerKey ==
    \A k \in Keys : Cardinality({f \in folds : f.k = k}) <= 1

\* C5 (as claimed): when the promise a merge call returned has resolved, its
\* delta has been looked at by a fold (folded, or dropped as incompatible)
\* or was discarded by a later set.
C5_ResolvedMeansFolded ==
    \A i \in 1..Len(hist) :
        (IsMerge(i) /\ hist[i].p \in resolved) => cstat[i] # "queued"

RECURSIVE valuesOf(_)
\* The deltas of the calls cs (call indices in increasing order), in call order.
valuesOf(cs) ==
    IF cs = {} THEN <<>>
    ELSE LET m == CHOOSE n \in cs : \A o \in cs : n <= o
         IN <<hist[m].v>> \o valuesOf(cs \ {m})

Range(f) == {f[i] : i \in DOMAIN f}

OnlyObjectMerges ==
    \A i \in 1..Len(hist) : hist[i].op = "run" \/ (IsMerge(i) /\ IsObj(hist[i].v))

\* C6: the delta handed to Storage.mergeItem is the left-to-right fold, in call
\* order, of the deltas it carries, and its pre-merged value is what the cache
\* then holds; after object merges only, the value of K is the fold of
\* all deltas in call order onto the initial value, so a later delta wins.
C6_BatchIsFoldInCallOrder ==
    /\ \A n \in 1..Len(mergeItemLog) :
          mergeItemLog[n].delta = applyMerge(Undef, valuesOf(Range(mergeItemLog[n].cs)), FALSE)
    /\ (Len(mergeItemLog) > 0 /\ hist[Len(hist)].op = "run" /\ LogsOf(Len(hist) - 1) # {}) =>
          cache[mergeItemLog[Len(mergeItemLog)].k] = mergeItemLog[Len(mergeItemLog)].pre
    /\ (Quiescent /\ OnlyObjectMerges /\ initial["a"].t # "arr") =>
          ValueOf("a") = applyMerge(initial["a"], valuesOf({i \in 1..Len(hist) : IsMerge(i)}), TRUE)

\* C6 witness: merge("a",{x:1}); merge("a",{y:2}); merge("a",{x:3}) on an empty
\* store gave one mergeItem call with delta {x:3,y:2} and cached value {x:3,y:2}.
C6_Witness ==
    /\ initial["a"] = Undef
    /\ Len(hist) = 4
    /\ hist[1].v = Obj(1, 0) /\ hist[2].v = Obj(0, 2) /\ hist[3].v = Obj(3, 0)
    /\ SameTick(1, 3)
    /\ Len(mergeItemLog) = 1
    /\ mergeItemLog[1].delta = Obj(3, 2)
    /\ cache["a"] = Obj(3, 2)

\* The promise of event n (a merge that started a fold, or a clear) has settled
\* before event i.
SettledBefore(n, i) ==
    \E m \in 1..(i - 1) : hist[m].op \in {"run", "clearDone"} /\ hist[m].p = hist[n].p

\* Event i is a clear called with no other operation in flight, and nothing
\* but its own continuations has happened since, the last of which completed it.
ClearedAlone(i) ==
    /\ hist[i].op = "clear"
    /\ \A n \in 1..(i - 1) : (IsMerge(n) \/ hist[n].op = "clear") => SettledBefore(n, i)
    /\ Len(hist) = i + 2
    /\ hist[i + 1].op = "clearReset" /\ hist[i + 2].op = "clearDone"

ResetValue(k) == defaultKeyStates[k]

\* C7: after clear(keysToPreserve) completes with no other operation in flight,
\* a preserved key has the cache and storage value it had before the call, a
\* key with a default state that is not preserved holds its default in cache
\* and storage, and every other key is absent from both.
C7_ClearResets ==
    \A i \in 1..Len(hist) : ClearedAlone(i) =>
        \A k \in Keys :
            IF k \in hist[i].pres
            THEN cache[k] = atClear.cache[k] /\ storage[k] = atClear.storage[k]
            ELSE cache[k] = ResetValue(k) /\ storage[k] = ResetValue(k)

\* C7 witness: clear(["a"]) has completed on a store where "a" was kept and
\* "lang" was brought back from another value to its default.
C7_Witness ==
    /\ \E i \in 1..Len(hist) : ClearedAlone(i) /\ hist[i].pres = {"a"}
    /\ atClear.cache["lang"] = Obj(3, 0)
    /\ cache["a"] = Obj(1, 0) /\ storage["a"] = Obj(1, 0)
    /\ cache["lang"] = Obj(2, 0) /\ storage["lang"] = Obj(2, 0)

\* C8 (as claimed): a merge fold on K that is pending when clear() is called,
\* K not preserved, has no effect after the reset: once the clear and the fold
\* have settled, K holds its default value, or is absent, in cache and storage.
C8_ClearNotOvertaken ==
    \A i \in 1..Len(hist) :
        (/\ hist[i].op = "clear"
         /\ Quiescent
         /\ \A n \in (i + 1)..Len(hist) : hist[n].op \notin Calls) =>
            \A n \in 1..(i - 1) :
                (IsMerge(n) /\ hist[n].k \notin hist[i].pres /\ ~SettledBefore(n, i)) =>
                    /\ cache[hist[n].k] = ResetValue(hist[n].k)
                    /\ storage[hist[n].k] = ResetValue(hist[n].k)

\* The continuations that may run next.
RunnableIds(s) ==
    {f.id : f \in {g \in s.folds : runnable(s, g)}}
        \cup {t.id : t \in {x \in s.tasks : runnable(s, x)}}

runTask(s, t) ==
    IF t.kind = "clear" THEN clearReset(s, t)
    ELSE IF t.kind = "clearDefaults" THEN clearDefaults(s, t)
    ELSE IF t.kind = "mergeCollection" THEN mergeCollectionWrite(s, t)
    ELSE IF t.kind = "mergeCollectionCache" THEN mergeCollectionCache(s, t)
    ELSE IF t.kind = "setCollection" THEN setCollectionWrite(s, t)
    ELSE IF t.kind = "evictStorageAndRetry" THEN evictStorageAndRetry(s, t)
    ELSE updateRun(s, t)

RECURSIVE settle(_)
\* The store once every pending continuation has run, oldest first: what a
\* caller that awaits the returned promise finds.
settle(s) ==
    IF RunnableIds(s) = {} THEN s
    ELSE LET m == CHOOSE i \in RunnableIds(s) : \A j \in RunnableIds(s) : i <= j
         IN IF \E f \in s.folds : f.id = m
            THEN settle(foldRun(s, CHOOSE f \in s.folds : f.id = m))
            ELSE settle(runTask(s, CHOOSE t \in s.tasks : t.id = m))

RECURSIVE oneAtATime(_, _)
\* The operations of data called one at a time, each awaited before the next.
oneAtATime(s, data) ==
    IF data = <<>> THEN s
    ELSE LET op == Head(data)
         IN oneAtATime(settle(invoke(s, Thunk(op.m, op.k, op.v, op.data, "user"))), Tail(data))

\* The store as it was before the first call.
Fresh ==
    [St EXCEPT !.cache = initialCache, !.storage = initial,
               !.mq = [k \in Keys |-> <<>>], !.mqp = [k \in Keys |-> 0],
               !.folds = {}, !.tasks = {}, !.nextId = 1, !.resolved = {},
               !.mlog = <<>>, !.slog = <<>>, !.reads = 0, !.hist = <<>>, !.cstat = <<>>, !.updates = <<>>,
               !.sync = <<>>]

\* A key that is absent and a key that was removed read the same.
Norm(v) == IF v = Null THEN Undef ELSE v

valueIn(s, k) == Norm(IF s.cache[k] # Undef THEN s.cache[k] ELSE s.storage[k])

\* The final state of the model is that of the store s: the same storage
\* content, and the same value read for every key.
SameFinalState(s) ==
    \A k \in Keys : storage[k] = s.storage[k] /\ Norm(ValueOf(k)) = valueIn(s, k)

WriteMethods == {"set", "merge", "multiset", "mergecollection", "setcollection"}

\* One update has been called, on a list of valid set, merge, multiSet,
\* mergeCollection and setCollection operations, without snapshot operations,
\* and everything has settled.
UpdateSettled ==
    /\ Quiescent
    /\ Len(updates) = 1
    /\ \A i \in 1..Len(updates[1]) :
          /\ updates[1][i].m \in WriteMethods
          /\ updates[1][i].keyIsString /\ updates[1][i].valueType = "object"
    /\ \A i \in 1..Len(hist) : hist[i].by # "snapshot"

\* C9 (as claimed): update(ops) leaves the final cache and storage state of
\* calling its operations one at a time in list order, each awaited before the
\* next; and the final state of a list of two merges on different keys is that
\* of the list with the two merges swapped.
C9_UpdateIsSequential ==
    UpdateSettled =>
        /\ SameFinalState(oneAtATime(Fresh, updates[1]))
        /\ (/\ Len(updates[1]) = 2
            /\ updates[1][1].m = "merge" /\ updates[1][2].m = "merge"
            /\ updates[1][1].k # updates[1][2].k) =>
               SameFinalState(settle(update(Fresh, <<updates[1][2], updates[1][1]>>, <<>>)))

\* The promise of event i has settled before event j.
SettledAt(i, j) ==
    \E m \in 1..(j - 1) :
        /\ hist[m].op \in {"run", "clearDone", "mergeCollectionDone", "setCollectionDone"}
        /\ hist[m].p = hist[i].p

\* C10 (as claimed): within one update call, every snapshot operation has
\* completed (the promise of its merge has settled) before any main operation
\* of that update begins.
C10_SnapshotsCompleteFirst ==
    \A i, j \in 1..Len(hist) :
        (hist[i].by = "snapshot" /\ hist[j].by = "main" /\ hist[i].u = hist[j].u) =>
            SettledAt(i, j)

\* Event i is a clear called by an update and event j is a snapshot or main
\* operation called by the same update.
ClearAndOperationOfOneUpdate(i, j) ==
    /\ hist[i].op = "clear" /\ hist[i].by = "update"
    /\ hist[j].by \in {"snapshot", "main"}
    /\ hist[j].u = hist[i].u

\* C11: in an update that contains a clear, wherever it stands in the list,
\* every other operation of the update is called, and so touches cache, merge
\* queue or storage, only after the promise of the clear has resolved.
C11_ClearFirstInUpdate ==
    \A i, j \in 1..Len(hist) :
        ClearAndOperationOfOneUpdate(i, j) =>
            \E m \in 1..(j - 1) : hist[m].op = "clearDone" /\ hist[m].p = hist[i].p

\* C11 witness: update([set, clear]) has settled: the set listed before the
\* clear was called after the clear completed.
C11_Witness ==
    /\ Quiescent
    /\ Len(updates) = 1 /\ Len(updates[1]) = 2
    /\ updates[1][1].m = "set" /\ updates[1][2].m = "clear"
    /\ \E i, j \in 1..Len(hist) : ClearAndOperationOfOneUpdate(i, j) /\ hist[j].op = "set"
    /\ cache[updates[1][1].k] = updates[1][1].v

\* This step is a call of update, on the list UpdateList'.
UpdateIsCalled == Len(updates') = Len(updates) + 1
UpdateList == updates[Len(updates)]

\* This step is a call that threw and changed neither cache, merge queue nor
\* storage, and left nothing pending.
ThrewAndChangedNothing ==
    /\ hist'[Len(hist')].op = "throw"
    /\ cache' = cache /\ storage' = storage
    /\ mergeQueue' = mergeQueue /\ mergeQueuePromise' = mergeQueuePromise
    /\ folds' = folds /\ tasks' = tasks

\* An operation fails validation: unknown method, multiSet value that is not a
\* plain object, non-string key on an operation that has a key (neither a
\* clear nor a multiSet).
FailsValidation(op) ==
    \/ op.m \notin WriteMethods \cup {"clear"}
    \/ op.m = "multiset" /\ op.valueType # "object"
    \/ op.m \notin {"clear", "multiset"} /\ ~op.keyIsString

\* C12 (as claimed): if any operation of the list fails validation, update
\* throws synchronously and no operation of the list, a clear or a valid
\* operation earlier in the list included, has changed cache, merge queue or
\* storage.
C12_InvalidUpdateThrows ==
    [][(UpdateIsCalled /\ \E i \in 1..Len(UpdateList') : FailsValidation(UpdateList'[i]))
          => ThrewAndChangedNothing]_vars

\* This step is a call of set(k, undefined).
SetUndefinedIsCalled(k) ==
    /\ Len(hist') = Len(hist) + 1
    /\ hist'[Len(hist')].op = "set" /\ hist'[Len(hist')].k = k /\ hist'[Len(hist')].v = Undef

\* C13 (as claimed): set(K, undefined) is a no-op in every state: the cached
\* value of K, the stored value of K and the value K has once the pending
\* operations have settled are what they are without the call.
C13_SetUndefinedIsNoOp ==
    [][\A k \in Keys :
          SetUndefinedIsCalled(k) =>
              /\ cache'[k] = cache[k] /\ storage'[k] = storage[k]
              /\ settle(St').cache[k] = settle(St).cache[k]
              /\ settle(St').storage[k] = settle(St).storage[k]]_vars

\* This step is a call of set(k, null).
SetNullIsCalled(k) ==
    /\ Len(hist') = Len(hist) + 1
    /\ hist'[Len(hist')].op = "set" /\ hist'[Len(hist')].k = k /\ hist'[Len(hist')].v = Null

\* C14 (as claimed): set(K, null) removes K from both cache and storage in
\* every state, a state where K is in storage and not in the cache included.
C14_SetNullRemoves ==
    [][\A k \in Keys :
          SetNullIsCalled(k) => ~truthy(cache'[k]) /\ storage'[k] = Undef]_vars

\* The value an operation of an update list carries for key k.
NewValueFor(op, k) ==
    IF op.m \in {"set", "merge"} THEN (IF op.k = k THEN op.v ELSE Undef) ELSE op.data[k]

\* A new value is incompatible with the existing one: array against non-array.
Incompatible(value, existingValue) ==
    truthy(value) /\ truthy(existingValue) /\ (value.t = "arr") # (existingValue.t = "arr")

\* The value of k before the first call.
ExistingAtStart(k) == IF initialCache[k] # Undef THEN initialCache[k] ELSE initial[k]

\* C15 (as claimed): an operation whose new value for a key is incompatible
\* with the existing value of the key never changes the cache or storage value
\* of that key, whichever write operation carries it (here: each write
\* operation as the only operation of an update).
C15_IncompatibleNeverWrites ==
    \A k \in Keys :
        (/\ Len(updates) = 1 /\ Len(updates[1]) = 1
         /\ updates[1][1].m \in WriteMethods /\ updates[1][1].keyIsString
         /\ Incompatible(NewValueFor(updates[1][1], k), ExistingAtStart(k)))
            => cache[k] = initialCache[k] /\ storage[k] = initial[k]

\* This step is a call of a write operation that has a value for key k.
WriteIsCalledOn(k) ==
    /\ Len(hist') = Len(hist) + 1
    /\ LET e == hist'[Len(hist')]
       IN \/ e.op \in {"set", "merge"} /\ e.k = k
          \/ e.op \in {"multiSet", "mergeCollection", "setCollection"} /\ e.data[k] # Undef

\* C16 (as claimed): for a key whose collection member id is skippable, every
\* write operation (set, merge, multiSet, mergeCollection, setCollection) acts
\* as a write of null: once it has settled the key is absent from cache and
\* storage.
C16_SkippableWriteRemoves ==
    [][\A k \in Keys :
          (isSkippable(k) /\ WriteIsCalledOn(k)) =>
              /\ ~truthy(settle(St').cache[k])
              /\ settle(St').storage[k] = Undef]_vars

\* This step runs the fold f of key k: the read resolved with the value that
\* is now cached, and the queue holds one delta {x: null} while the cached
\* value is an object with a field x.
FoldOfNestedNull(f) ==
    /\ f \in folds /\ f \notin folds'
    /\ f.existing = cache[f.k] /\ IsObj(cache[f.k]) /\ cache[f.k].x > 0
    /\ Deltas(mergeQueue[f.k]) = <<Obj(NullF, 0)>>

\* C17: a nested null in a merge delta deletes that field from the cached
\* value while the delta passed to Storage.mergeItem keeps the null: with
\* {x: 1, y: 2} cached, merge(K, {x: null}) leaves {y: 2} in the cache and
\* calls mergeItem with the delta {x: null} and the pre-merged value {y: 2}.
C17_NestedNullKeptInDelta ==
    [][\A f \in folds :
          FoldOfNestedNull(f) =>
              /\ cache'[f.k] = Obj(0, cache[f.k].y)
              /\ Len(mergeItemLog') = Len(mergeItemLog) + 1
              /\ LET call == mergeItemLog'[Len(mergeItemLog')]
                 IN /\ call.k = f.k
                    /\ call.delta = Obj(NullF, 0)
                    /\ call.pre = Obj(0, cache[f.k].y)]_vars

\* C17 witness: merge(K, {x: null}) has been folded onto a cached {x: 1, y: 2}.
C17_Witness ==
    /\ Len(mergeItemLog) = 2
    /\ mergeItemLog[2].delta = Obj(NullF, 0) /\ mergeItemLog[2].pre = Obj(0, 2)
    /\ cache["a"] = Obj(0, 2)
    /\ Quiescent

\* This step is the retry of a set whose Storage.setItem rejected, and an
\* evictable key can be dropped.
RetryRuns(t) ==
    /\ t \in tasks /\ t \notin tasks' /\ t.kind = "evictStorageAndRetry" /\ t.method = "set"
    /\ \E k \in evictableKeys : cache[k] # Undef

\* C18 (as claimed): if Storage.setItem rejects during set(K, v) and an
\* evictable key can be dropped, set is re-invoked and issues
\* Storage.setItem(K, v) again: when the promise returned by set resolves,
\* storage holds v for K.
C18_RetryWrites ==
    [][\A t \in tasks : RetryRuns(t) => storage'[t.ck] = t.data[t.ck]]_vars

\* clear() was called and then, with nothing between, merge(k, d); no other
\* call was made.
MergeRightAfterClear(k) ==
    /\ Len(hist) >= 2 /\ NCalls(hist) = 2
    /\ hist[1].op = "clear" /\ hist[1].pres = {}
    /\ hist[2].op = "merge" /\ hist[2].k = k /\ IsObj(hist[2].v)

\* C19 (as claimed): when merge(K, d) is called right after clear() for a key
\* K with a default state, the default value written by clear reaches storage
\* before the write of the merge: once both have settled, cache and storage
\* hold d merged onto the default value.
C19_MergeAfterClear ==
    \A k \in Keys :
        (defaultKeyStates[k] # Undef /\ MergeRightAfterClear(k) /\ Quiescent)
            => /\ cache[k] = fastMerge(defaultKeyStates[k], hist[2].v, TRUE)
               /\ storage[k] = fastMerge(defaultKeyStates[k], hist[2].v, TRUE)

\* This step is the continuation of setCollection(t.ck, members) that
\* settles the call.
SetCollectionSettles(t) == t \in tasks /\ t \notin tasks' /\ t.kind = "setCollection"

\* The object the call of task t was given.
MembersGiven(t) ==
    LET i == CHOOSE j \in 1..Len(hist) : hist[j].op = "setCollection" /\ hist[j].p = t.p
    IN hist[i].data

\* Key k is absent from cache and storage in the next state.
AbsentNext(k) == ~truthy(cache'[k]) /\ storage'[k] = Undef

\* Key k holds v in cache and storage in the next state.
HoldsNext(k, v) == cache'[k] = v /\ storage'[k] = v

\* C20 (as claimed): after setCollection(CK, members) settles, the keys under
\* CK present in cache and storage are exactly the keys of members with a
\* non-null value, each holding its given value, and the keys outside CK are
\* unchanged.
C20_SetCollectionReplaces_AsClaimed ==
    [][\A t \in tasks :
          SetCollectionSettles(t) =>
              \A k \in Keys :
                  IF k \notin Members(t.ck)
                  THEN cache'[k] = cache[k] /\ storage'[k] = storage[k]
                  ELSE IF truthy(MembersGiven(t)[k]) THEN HoldsNext(k, MembersGiven(t)[k])
                  ELSE AbsentNext(k)]_vars

\* C20 (amended): after setCollection(CK, members) settles, the keys under CK
\* present in cache and storage are exactly the keys of members with a
\* non-null value whose member id is not skippable, each holding its given
\* value without its nested nulls, and the keys outside CK are unchanged.
C20_SetCollectionReplaces ==
    [][\A t \in tasks :
          SetCollectionSettles(t) =>
              \A k \in Keys :
                  IF k \notin Members(t.ck)
                  THEN cache'[k] = cache[k] /\ storage'[k] = storage[k]
                  ELSE IF truthy(MembersGiven(t)[k]) /\ ~isSkippable(k)
                  THEN HoldsNext(k, stripNulls(MembersGiven(t)[k]))
                  ELSE AbsentNext(k)]_vars

\* C20 witness: setCollection("r_", {r_1: null, r_2: v}) has settled on a store
\* that held r_1 and r_42: r_2 holds v, r_1 and r_42 are gone.
C20_Witness ==
    /\ Len(hist) = 2 /\ hist[2].op = "setCollectionDone"
    /\ initial["r_1"] # Undef /\ initial["r_42"] # Undef
    /\ hist[1].data["r_1"] = Null
    /\ storage["r_2"] = Obj(3, 0) /\ cache["r_2"] = Obj(3, 0)
    /\ storage["r_1"] = Undef /\ storage["r_42"] = Undef

\* This step is a call set(k, v) that follows a call set(k, v) with the same
\* value, nothing having run between the two.
SameSetAgain ==
    /\ Len(hist) >= 1 /\ Len(hist') = Len(hist) + 1
    /\ LET first == hist[Len(hist)]
           second == hist'[Len(hist')]
       IN /\ first.op = "set" /\ second.op = "set"
          /\ first.k = second.k /\ first.v = second.v

\* C21: set(K, V) followed by set(K, V) with the same value: the second call
\* issues no Storage.setItem (no storage call at all), whether the write of
\* the first call was accepted or is still to be retried.
C21_SameSetWritesOnce == [][SameSetAgain => storageLog' = storageLog]_vars

\* C21 witness: set("a", {x: 3}) was called twice in a row, the first call
\* issued a Storage.setItem that rejected and whose retry is pending, the
\* second call issued none.
C21_Witness ==
    /\ Len(hist) = 2
    /\ hist[1].op = "set" /\ hist[2].op = "set"
    /\ hist[1].k = "a" /\ hist[2].k = "a"
    /\ hist[1].v = Obj(3, 0) /\ hist[2].v = Obj(3, 0)
    /\ Len(storageLog) = 1 /\ storageLog[1].m = "setItem" /\ ~storageLog[1].ok
    /\ \E t \in tasks : t.kind = "evictStorageAndRetry"

\* The per-key queue of an update once the handlers of its operations have run.
QueueOf(data) ==
    handleAll([updateQueue |-> [k \in Keys |-> <<>>], promises |-> <<>>, s |-> St,
               clearPromise |-> 0, u |-> 0, threw |-> FALSE], data).updateQueue

\* The positions in the deferred functions of update task t of the main
\* operations with method m that carry key k.
Emitted(t, m, k) ==
    {i \in 1..Len(t.thunks) :
        /\ t.thunks[i].by = "main" /\ t.thunks[i].m = m
        /\ IF m \in {"set", "merge"} THEN t.thunks[i].k = k ELSE t.thunks[i].data[k] # Undef}

\* The positions of the main operations with method m.
EmittedCalls(t, m) == {i \in 1..Len(t.thunks) : t.thunks[i].by = "main" /\ t.thunks[i].m = m}

\* What update task t, made from the queue, emits for the members of ck.
CollapsedAsClaimed(t, queue, ck) ==
    LET queued == {k \in Members(ck) : queue[k] # <<>>}
        first(k) == Head(queue[k])
        value(k) == applyMerge(Undef, queue[k], FALSE)
    IN IF Cardinality(queued) >= 2
       THEN /\ Cardinality(EmittedCalls(t, "multiset")) <= 1
            /\ Cardinality(EmittedCalls(t, "mergecollection")) <= 1
            /\ \A k \in queued :
                  /\ Emitted(t, "set", k) = {} /\ Emitted(t, "merge", k) = {}
                  /\ IF first(k) = Null
                     THEN /\ \E i \in Emitted(t, "multiset", k) : t.thunks[i].data[k] = value(k)
                          /\ Emitted(t, "mergecollection", k) = {}
                     ELSE /\ \E i \in Emitted(t, "mergecollection", k) :
                                t.thunks[i].data[k] = value(k)
                          /\ Emitted(t, "multiset", k) = {}
       ELSE /\ EmittedCalls(t, "multiset") = {} /\ EmittedCalls(t, "mergecollection") = {}
            /\ \A k \in queued :
                  IF first(k) = Null
                  THEN Cardinality(Emitted(t, "set", k)) = 1 /\ Emitted(t, "merge", k) = {}
                  ELSE Cardinality(Emitted(t, "merge", k)) = 1 /\ Emitted(t, "set", k) = {}

\* C22: in update, when at least two members of a collection are queued, they
\* are taken out of the per-key queue and emitted once each: the keys whose
\* first queued operation is null in one multiSet, the others in one
\* mergeCollection, and no individual set or merge is emitted for them; a
\* single queued member is emitted as an individual set or merge.
C22_CollectionMembersCollapsed ==
    [][UpdateIsCalled =>
          \A t \in tasks' \ tasks :
              t.kind = "update" => CollapsedAsClaimed(t, QueueOf(UpdateList'), CollectionKey)]_vars

\* C22 witness: an update that queued r_1 with a set and r_2 with a merge is
\* pending with one multiSet of r_1 and one mergeCollection of r_2.
C22_Witness ==
    \E t \in tasks :
        /\ t.kind = "update"
        /\ Emitted(t, "multiset", "r_1") # {} /\ Emitted(t, "mergecollection", "r_2") # {}
        /\ Emitted(t, "set", "r_1") = {} /\ Emitted(t, "merge", "r_2") = {}

\* This step runs the fold f while the queue of its key holds a top-level null
\* followed by one object delta.
FoldOfNullThenObject(f) ==
    /\ f \in folds /\ f \notin folds'
    /\ Len(mergeQueue[f.k]) = 2
    /\ mergeQueue[f.k][1].d = Null /\ IsObj(mergeQueue[f.k][2].d)

\* The step made one Storage.mergeItem call, for key k, with shouldSetValue.
MergeItemSets(k) ==
    /\ Len(mergeItemLog') = Len(mergeItemLog) + 1
    /\ mergeItemLog'[Len(mergeItemLog')].k = k
    /\ mergeItemLog'[Len(mergeItemLog')].set

\* C23 (as claimed): when the merge queue of K holds a top-level null followed
\* by a non-null object delta, the fold drops the whole existing value:
\* Storage.mergeItem is called with shouldSetValue = true and the cached value
\* becomes the null-stripped later delta alone.
C23_NullThenObjectSets ==
    [][\A f \in folds :
          FoldOfNullThenObject(f) =>
              /\ MergeItemSets(f.k)
              /\ cache'[f.k] = stripNulls(mergeQueue[f.k][2].d)]_vars

\* This step is the continuation of mergeCollection(t.ck, collection) that
\* issues the storage writes.
MergeCollectionWrites(t) == t \in tasks /\ t \notin tasks' /\ t.kind = "mergeCollection"

\* The collection the call of task t was given, its skippable members set to
\* null.
CollectionGiven(t) ==
    LET i == CHOOSE j \in 1..Len(hist) : hist[j].op = "mergeCollection" /\ hist[j].p = t.p
    IN skipSkippable(hist[i].data)

\* The keys passed to the storage method m by the calls issued in this step.
PassedTo(m) ==
    UNION {KeysOf(storageLog'[i].data) :
              i \in {j \in (Len(storageLog) + 1)..Len(storageLog') : storageLog'[j].m = m}}

\* This step is a call of mergeCollection with an empty collection or with a
\* key that is not a member of the collection.
MergeCollectionOfInvalid ==
    /\ Len(hist') = Len(hist) + 1
    /\ LET e == hist'[Len(hist')]
       IN /\ e.op = "mergeCollection"
          /\ KeysOf(e.data) = {} \/ ~(KeysOf(e.data) \subseteq Members(e.k))

\* C24: the continuation of mergeCollection partitions the keys of the
\* collection it was given (skippable members being null): a member with a null
\* value is removed from cache and storage and passed to neither storage write;
\* any other key is passed to Storage.multiMerge iff it is in the persisted key
\* set and compatible with the cached value, to Storage.multiSet iff it is not
\* persisted; no key is passed to both and no other key is passed; a call with
\* an empty collection or with a key outside the collection changes nothing.
C24_MergeCollectionPartitions ==
    [][/\ \A t \in tasks :
            MergeCollectionWrites(t) =>
                LET given == CollectionGiven(t)
                IN /\ \A k \in KeysOf(given) :
                          IF given[k] = Null
                          THEN /\ cache'[k] = Undef /\ storage'[k] = Undef
                               /\ k \notin PassedTo("multiMerge") \cup PassedTo("multiSet")
                          ELSE /\ k \in PassedTo("multiMerge")
                                    <=> /\ k \in getAllKeys(St)
                                        /\ checkCompatibilityWithExistingValue(given[k], cache[k])
                               /\ k \in PassedTo("multiSet") <=> k \notin getAllKeys(St)
                   /\ PassedTo("multiMerge") \cap PassedTo("multiSet") = {}
                   /\ PassedTo("multiMerge") \cup PassedTo("multiSet") \subseteq KeysOf(given)
       /\ MergeCollectionOfInvalid =>
              /\ UNCHANGED <<cache, storage, storageLog, mergeQueue, mergeQueuePromise>>
              /\ UNCHANGED <<folds, tasks, resolved>>]_vars

\* C24 witness: one continuation of mergeCollection has passed the persisted
\* member r_1 to Storage.multiMerge and the new member r_2 to Storage.multiSet,
\* and a call with a key outside the collection has been made.
C24_Witness ==
    /\ \E i \in 1..Len(hist) : hist[i].op = "mergeCollection" /\ hist[i].data["a"] # Undef
    /\ Len(storageLog) = 2
    /\ storageLog[1].m = "multiMerge" /\ KeysOf(storageLog[1].data) = {"r_1"}
    /\ storageLog[2].m = "multiSet" /\ KeysOf(storageLog[2].data) = {"r_2"}

\* The calls of the storage driver issued in this step that it rejects.
RejectedNow == {i \in (Len(storageLog) + 1)..Len(storageLog') : ~storageLog'[i].ok}

\* The value the operation that issued call i of the storage driver wrote to
\* the cache for key k: the pre-merged value for a merge, the value passed to
\* the driver for set and multiSet.
OptimisticValue(i, k) ==
    IF storageLog'[i].m = "mergeItem" THEN mergeItemLog'[Len(mergeItemLog')].pre
    ELSE storageLog'[i].data[k]

\* This step is the catch of the rejected write of task t.
RejectionHandled(t) == t \in tasks /\ t \notin tasks' /\ t.kind = "evictStorageAndRetry"

\* C25: when the storage write issued by set, merge or multiSet is rejected,
\* the cache holds, for every key of the write, the value the operation wrote
\* before the storage call (the write that notifies the subscribers), and the
\* catch of the rejection leaves that value in the cache.
C25_CacheKeptOnRejection ==
    [][/\ \A i \in RejectedNow :
            \A k \in KeysOf(storageLog'[i].data) :
                /\ cache'[k] = OptimisticValue(i, k)
                /\ storage'[k] = storage[k]
       /\ \A t \in tasks :
            RejectionHandled(t) =>
                \A k \in KeysOf(t.data) :
                    cache[k] = stripNulls(t.data[k]) => cache'[k] = cache[k]]_vars

\* C25 witness: a merge whose Storage.mergeItem was rejected and a multiSet
\* whose Storage.multiSet was rejected have settled, the catch of the multiSet
\* has run, and the cache holds the value given to multiSet.
C25_Witness ==
    /\ \E i \in 1..Len(storageLog) : storageLog[i].m = "mergeItem" /\ ~storageLog[i].ok
    /\ \E i \in 1..Len(storageLog) : storageLog[i].m = "multiSet" /\ ~storageLog[i].ok
    /\ \E i \in 1..Len(hist) : hist[i].op \in {"retried", "rejected"}
    /\ tasks = {} /\ folds = {}
    /\ cache["a"] \in {Obj(0, 3), Obj(3, 0)}

\* Event n is a call multiSet(data) that writes key k while the fold of an
\* earlier merge(k, d) is waiting for its read; the calls before it are calls
\* of set and merge, and no call follows it.
MultiSetOverFold(k, n) ==
    /\ hist[n].op = "multiSet" /\ hist[n].data[k] # Undef
    /\ \E i \in 1..(n - 1) : IsMerge(i) /\ hist[i].k = k /\ hist[i].p \notin RunsBefore(n)
    /\ \A j \in 1..Len(hist) :
          hist[j].op \in Calls => (j = n \/ (j < n /\ hist[j].op \in {"set", "merge"}))

\* The merge calls on k before event n whose fold had not run by then.
WaitingMerges(k, n) ==
    {i \in 1..(n - 1) : IsMerge(i) /\ hist[i].k = k /\ hist[i].p \notin RunsBefore(n)}

\* C26 (as claimed): multiSet(data) removes the merge-queue entry of every key
\* it writes and updates the cache before Storage.multiSet is called, so a fold
\* on one of these keys that was waiting for its read applies none of its
\* deltas, and once everything has settled the key holds the value given to
\* multiSet.
C26_MultiSetAbortsFold_AsClaimed ==
    \A k \in Keys : \A n \in 1..Len(hist) :
        MultiSetOverFold(k, n) =>
            /\ \A i \in WaitingMerges(k, n) : cstat[i] = "aborted" /\ LogsOf(i) = {}
            /\ Quiescent => /\ Norm(cache[k]) = Norm(hist[n].data[k])
                            /\ storage[k] = Norm(hist[n].data[k])

\* C26 (amended): multiSet(data) removes the merge-queue entry of every key it
\* writes and updates the cache before Storage.multiSet is called, so a fold on
\* one of these keys that was waiting for its read applies none of its deltas,
\* and once everything has settled the key holds the value given to multiSet
\* without its nested nulls.
C26_MultiSetAbortsFold ==
    \A k \in Keys : \A n \in 1..Len(hist) :
        MultiSetOverFold(k, n) =>
            /\ \A i \in WaitingMerges(k, n) : cstat[i] = "aborted" /\ LogsOf(i) = {}
            /\ Quiescent => /\ Norm(cache[k]) = Norm(stripNulls(hist[n].data[k]))
                            /\ storage[k] = Norm(stripNulls(hist[n].data[k]))

\* C26 witness: merge("r_1", d) and then multiSet({r_1: v}) were called, the
\* fold of the merge has run after the multiSet, and r_1 holds v.
C26_Witness ==
    /\ Len(hist) = 3 /\ MultiSetOverFold("r_1", 2)
    /\ hist[3].op = "run" /\ Quiescent
    /\ cstat[1] = "aborted"
    /\ hist[2].data["r_1"] = Obj(0, 3)
    /\ cache["r_1"] = Obj(0, 3) /\ storage["r_1"] = Obj(0, 3)

\* This step is the callback of keepInstancesSync called with (key, value).
SyncDelivered(key, value) ==
    /\ syncQueue # <<>> /\ syncQueue' = Tail(syncQueue)
    /\ Head(syncQueue) = [k |-> key, v |-> value]

\* C27: the callback of keepInstancesSync called with (key, value) sets the
\* cached value of key to value and leaves the merge queue, its promises,
\* storage and every other cached key unchanged; a fold in flight for the key
\* stays in flight with its queued deltas.
C27_SyncBypassesQueue ==
    [][\A key \in Keys, value \in {Obj(0, 3), Null} :
          SyncDelivered(key, value) =>
              /\ cache' = [cache EXCEPT ![key] = value]
              /\ UNCHANGED <<mergeQueue, mergeQueuePromise, storage, storageLog, mergeItemLog>>
              /\ UNCHANGED <<folds, tasks, resolved>>]_vars

\* C27 witness: the callback has been called for "a" while a fold for "a" was
\* waiting for its read; the fold is still waiting, its delta is still queued
\* and the cache holds the value delivered.
C27_Witness ==
    /\ Len(hist) >= 1 /\ hist[Len(hist)].op = "keepInstancesSync"
    /\ \E f \in folds : f.k = "a"
    /\ mergeQueue["a"] # <<>>
    /\ cache["a"] = hist[Len(hist)].v

\* This step runs the fold f of merge calls with object deltas that were all
\* made after run r, the run of an earlier fold for the same key that called
\* Storage.mergeItem (entry n of the log) with an object as pre-merged value.
FoldAfterFold(f, r, n) ==
    /\ f \in folds /\ f \notin folds'
    /\ r < Len(hist) /\ hist[r].op = "run" /\ hist[r].k = f.k
    /\ \A j \in (r + 1)..Len(hist) :
          IsMerge(j) /\ hist[j].k = f.k /\ hist[j].p = f.id /\ IsObj(hist[j].v)
    /\ n = Len(mergeItemLog) /\ n >= 1
    /\ mergeItemLog[n].k = f.k /\ IsObj(mergeItemLog[n].pre)
    /\ \A m \in 1..Len(mergeItemLog[n].cs) : hist[mergeItemLog[n].cs[m]].p = hist[r].p

\* C28: a merge(K, d2) called after a fold for K has run and called
\* Storage.mergeItem starts a new fold whose read returns the pre-merged value
\* of the first fold, and the second fold leaves in the cache its deltas merged
\* onto that value: the deltas of both folds.
C28_NoLostUpdateAcrossFolds ==
    [][\A f \in folds : \A r \in 1..Len(hist) : \A n \in 1..Len(mergeItemLog) :
          FoldAfterFold(f, r, n) =>
              /\ f.existing = mergeItemLog[n].pre
              /\ Len(mergeQueue[f.k]) = Len(hist) - r
              /\ cache'[f.k] = applyMerge(mergeItemLog[n].pre, Deltas(mergeQueue[f.k]), TRUE)]_vars

\* C28 witness: merge("a", {x: 1}) on an absent key, its fold, then
\* merge("a", {y: 2}) and its fold: the cache holds {x: 1, y: 2}.
C28_Witness ==
    /\ Len(hist) = 4 /\ initial["a"] = Undef
    /\ IsMerge(1) /\ hist[1].v = Obj(1, 0) /\ hist[2].op = "run"
    /\ IsMerge(3) /\ hist[3].v = Obj(0, 2) /\ hist[4].op = "run"
    /\ hist[3].p # hist[1].p
    /\ Len(mergeItemLog) = 2
    /\ cache["a"] = Obj(1, 2)

\* C29 (as claimed): for any sequence of set and merge calls on a key K, the
\* storage driver applying the writes in the order issued and rejecting none,
\* once all promises have settled the value stored for K equals the cached
\* value of K, an absent key being equal to a removed one and a key that is
\* not cached being read from storage.
C29_QuiescentConsistency ==
    \A k \in CallKeys : Quiescent => Norm(ValueOf(k)) = Norm(storage[k])

\* This step is a call set(k, x).
SetIsCalledOn(k) ==
    /\ Len(hist') = Len(hist) + 1
    /\ hist'[Len(hist')].op = "set" /\ hist'[Len(hist')].k = k

\* The merge calls whose deltas are in the queue entry of k.
QueuedCalls(k) == {mergeQueue[k][j].c : j \in 1..Len(mergeQueue[k])}

\* The Storage.mergeItem calls of the next state that carry the delta of call i.
LogsOfNext(i) ==
    {n \in 1..Len(mergeItemLog') :
        \E m \in 1..Len(mergeItemLog'[n].cs) : mergeItemLog'[n].cs[m] = i}

\* C30: every call set(K, x) removes the merge-queue entry of K, whatever x
\* is and whether or not the set then changes anything, and a delta removed
\* from the queue in this way is never folded and never reaches
\* Storage.mergeItem.
C30_SetAlwaysAborts ==
    [][/\ \A k \in Keys :
            SetIsCalledOn(k) =>
                /\ mergeQueue'[k] = <<>>
                /\ \A i \in QueuedCalls(k) : cstat'[i] = "aborted"
       /\ \A i \in 1..Len(cstat) :
            cstat[i] = "aborted" =>
                /\ cstat'[i] = "aborted"
                /\ LogsOfNext(i) = {}
                /\ \A k \in Keys : i \notin {mergeQueue'[k][j].c : j \in 1..Len(mergeQueue'[k])}]_vars

\* C30 witness: merge("a", d), then set("a", undefined), then the fold of the
\* merge: the delta was removed from the queue and nothing was written.
C30_Witness ==
    /\ Len(hist) = 3
    /\ IsMerge(1) /\ IsSet(2) /\ hist[2].v = Undef /\ hist[3].op = "run"
    /\ cstat[1] = "aborted"
    /\ cache = initialCache /\ storage = initial /\ mergeItemLog = <<>>

\* No fold continuation is waiting for key k.
NoFoldInFlight(k) == \A f \in folds : f.k # k

\* C31 (as claimed): whenever no merge fold is in flight for K, K has no
\* merge-queue entry and no merge-queue promise, whichever way the fold ended:
\* aborted, all deltas dropped as incompatible, key removed, value unchanged,
\* or written to storage.
C31_NoEntryWithoutFold ==
    \A k \in Keys :
        NoFoldInFlight(k) => mergeQueue[k] = <<>> /\ mergeQueuePromise[k] = 0

====
